---- MODULE Spec2Model ----
(***************************************************************************)
(* State-machine models of the iroh node core:                             *)
(*   - the download actor and its queue      (iroh/src/download.rs)        *)
(*   - the provider's stream handler         (iroh-bytes/src/provider.rs)  *)
(*   - the Purpose file-name codec           (iroh-bytes/src/provider.rs)  *)
(*   - the in-memory replica store           (iroh-sync/src/store/memory.rs)*)
(*   - the sync protocol driver              (iroh/src/sync.rs)            *)
(* Each subsystem has its own variables and its own specification; a       *)
(* specification leaves the variables of the other subsystems untouched.   *)
(***************************************************************************)
EXTENDS Integers, Sequences, FiniteSets, TLC

(***************************************************************************)
(* Generic helpers: partial maps (HashMap / BTreeMap) are functions whose  *)
(* DOMAIN is the set of keys present.                                      *)
(***************************************************************************)
EmptyMap == << >>

MapPut(m, k, v) == [x \in (DOMAIN m) \cup {k} |-> IF x = k THEN v ELSE m[x]]

MapDel(m, k) == [x \in (DOMAIN m) \ {k} |-> m[x]]

\* mutant of Retain: every element is kept
Retain_nothing(s, e) == s

\* VecDeque::retain(|x| x != e)
RECURSIVE Retain(_, _)
Retain(s, e) ==
    IF s = << >> THEN << >>
    ELSE IF Head(s) = e THEN Retain(Tail(s), e)
         ELSE <<Head(s)>> \o Retain(Tail(s), e)

\* VecDeque::remove(idx), idx counted from 1 here
RemoveAt(s, idx) == [i \in 1..(Len(s) - 1) |-> IF i < idx THEN s[i] ELSE s[i + 1]]

SeqRange(s) == {s[i] : i \in DOMAIN s}

\* all sequences over S of length at most n
SeqsUpTo(S, n) == UNION {[1..k -> S] : k \in 0..n}

(***************************************************************************)
(*                     DOWNLOAD ACTOR (download.rs)                        *)
(***************************************************************************)
Hashes == {"h1", "h2"}
Peers == {"p1", "p2"}
NoHash == "nohash"
NoPeer == "nopeer"

\* bound of the download model: the number of push calls
MaxPush == 2

\* the peer lists a push may carry (repeated peers included)
PeerLists == SeqsUpTo(Peers, Cardinality(Peers))

\* the size of the blob with a given hash (content addressed: fixed per hash)
BlobSize(h) == IF h = "h1" THEN 42 ELSE 7

VARIABLES
    rx,                     \* flume channel Downloader -> actor: requests not yet received
    npush,                  \* number of Downloader::push calls made so far
    pushed,                 \* history: the (hash, peers) of the i-th push
    reply_rx,               \* what the i-th push's oneshot receiver holds
    replies,                \* DownloadActor.replies : Hash -> deque of oneshot senders
    conns,                  \* DownloadActor.conns (keys)
    dialing,                \* peers with a dial pending in the Dialer
    pending_download_futs,  \* downloads in flight: set of <<peer, hash>>
    queue,                  \* DownloadActor.queue : DownloadQueue
    db,                     \* hashes present in the local blob database
    not_found_by,           \* history: <<peer, hash>> pairs answered not-found
    failed_peers,           \* history: peers whose dial or download failed
    actor_panicked,         \* start_download_unchecked unwrapped a missing connection
    pending_downloads,      \* Downloader.pending_downloads : Hash -> the push whose
                            \* reply_rx the shared future awaits
    finished_obs            \* history: the last poll of a future returned by finished

dlVars == <<rx, npush, pushed, reply_rx, replies, conns, dialing,
            pending_download_futs, queue, db, not_found_by, failed_peers,
            actor_panicked, pending_downloads, finished_obs>>

ReplyUnused == [tag |-> "Unused", hash |-> NoHash, size |-> 0]
ReplyPending == [tag |-> "Pending", hash |-> NoHash, size |-> 0]
ReplyNone == [tag |-> "None", hash |-> NoHash, size |-> 0]
ReplySome(h, s) == [tag |-> "Some", hash |-> h, size |-> s]

\* DownloadQueue::default()
EmptyQueue ==
    [candidates_by_hash |-> EmptyMap, candidates_by_peer |-> EmptyMap,
     running_by_hash |-> EmptyMap, running_by_peer |-> EmptyMap]

\* DownloadQueue::push_candidate
push_candidate(q, hash, peer) ==
    [q EXCEPT
       !.candidates_by_hash =
           MapPut(@, hash, (IF hash \in DOMAIN @ THEN @[hash] ELSE << >>) \o <<peer>>),
       !.candidates_by_peer =
           MapPut(@, peer, (IF peer \in DOMAIN @ THEN @[peer] ELSE << >>) \o <<hash>>)]

\* DownloadQueue::ensure_no_empty
ensure_no_empty(q, hash, peer) ==
    [q EXCEPT
       !.candidates_by_peer =
           IF peer \in DOMAIN @ /\ @[peer] = << >> THEN MapDel(@, peer) ELSE @,
       !.candidates_by_hash =
           IF hash \in DOMAIN @ /\ @[hash] = << >> THEN MapDel(@, hash) ELSE @]

\* mutant of try_next_for_peer: the first candidate hash is taken, running or not
try_next_for_peer_any(q, peer) ==
    IF peer \notin DOMAIN q.candidates_by_peer
    THEN [q |-> q, next |-> NoHash]
    ELSE
      LET hash == q.candidates_by_peer[peer][1]
          q1 == [q EXCEPT
                   !.running_by_hash = MapPut(@, hash, peer),
                   !.running_by_peer = MapPut(@, peer, hash),
                   !.candidates_by_peer = [@ EXCEPT ![peer] = RemoveAt(@, 1)],
                   !.candidates_by_hash =
                       IF hash \in DOMAIN @
                       THEN [@ EXCEPT ![hash] = Retain(@, peer)]
                       ELSE @]
      IN [q |-> ensure_no_empty(q1, hash, peer), next |-> hash]

\* DownloadQueue::try_next_for_peer : the new queue and the hash chosen (or NoHash)
try_next_for_peer(q, peer) ==
    IF peer \notin DOMAIN q.candidates_by_peer
    THEN [q |-> q, next |-> NoHash]
    ELSE
      LET hs == q.candidates_by_peer[peer]
          free == {i \in DOMAIN hs : hs[i] \notin DOMAIN q.running_by_hash}
      IN IF free = {}
         THEN [q |-> q, next |-> NoHash]
         ELSE
           LET idx == CHOOSE i \in free : \A j \in free : i <= j
               hash == hs[idx]
               q1 == [q EXCEPT
                        !.running_by_hash = MapPut(@, hash, peer),
                        !.running_by_peer = MapPut(@, peer, hash),
                        !.candidates_by_peer = [@ EXCEPT ![peer] = RemoveAt(@, idx)],
                        !.candidates_by_hash =
                            IF hash \in DOMAIN @
                            THEN [@ EXCEPT ![hash] = Retain(@, peer)]
                            ELSE @]
           IN [q |-> ensure_no_empty(q1, hash, peer), next |-> hash]

\* DownloadQueue::has_no_candidates
has_no_candidates(q, hash) ==
    hash \notin DOMAIN q.candidates_by_hash /\ hash \notin DOMAIN q.running_by_hash

\* DownloadQueue::on_success (the returned pair is dropped by the caller)
queue_on_success(q, hash, peer) ==
    LET q1 == [q EXCEPT !.running_by_hash = MapDel(@, hash),
                        !.running_by_peer = MapDel(@, peer)]
    IN try_next_for_peer(q1, peer).q

\* the loop over the peer's candidate hashes in DownloadQueue::on_peer_fail
RECURSIVE fail_candidates(_, _, _, _)
fail_candidates(cbh, rbh, hashes, peer) ==
    IF hashes = << >> THEN [cbh |-> cbh, failed |-> << >>]
    ELSE
      LET hash == Head(hashes) IN
      IF hash \in DOMAIN cbh
      THEN LET peers == Retain(cbh[hash], peer)
               cbh1 == [cbh EXCEPT ![hash] = peers]
               rest == fail_candidates(cbh1, rbh, Tail(hashes), peer)
           IN [cbh |-> rest.cbh,
               failed |-> (IF peers = << >> /\ hash \notin DOMAIN rbh
                           THEN <<hash>> ELSE << >>) \o rest.failed]
      ELSE fail_candidates(cbh, rbh, Tail(hashes), peer)

\* DownloadQueue::on_peer_fail : the new queue and the hashes that failed
queue_on_peer_fail(q, peer) ==
    LET hashes == IF peer \in DOMAIN q.candidates_by_peer
                  THEN q.candidates_by_peer[peer] ELSE << >>
        r == fail_candidates(q.candidates_by_hash, q.running_by_hash, hashes, peer)
        q1 == [q EXCEPT !.candidates_by_peer = MapDel(@, peer),
                        !.candidates_by_hash = r.cbh]
    IN IF peer \in DOMAIN q1.running_by_peer
       THEN LET hash == q1.running_by_peer[peer]
                q2 == [q1 EXCEPT !.running_by_peer = MapDel(@, peer),
                                 !.running_by_hash = MapDel(@, hash)]
            IN [q |-> q2,
                failed |-> r.failed \o
                           (IF hash \notin DOMAIN q2.candidates_by_hash
                            THEN <<hash>> ELSE << >>)]
       ELSE [q |-> q1, failed |-> r.failed]

\* DownloadQueue::on_not_found
queue_on_not_found(q, hash, peer) ==
    ensure_no_empty([q EXCEPT !.running_by_hash = MapDel(@, hash),
                              !.running_by_peer = MapDel(@, peer)], hash, peer)

(* The actor's mutable fields, threaded through its helper methods. *)
ActorState ==
    [replies |-> replies, conns |-> conns, futs |-> pending_download_futs,
     queue |-> queue, reply_rx |-> reply_rx, panicked |-> actor_panicked]

\* DownloadActor::reply : answer and drop all waiters of the hash
actor_reply(a, hash, res) ==
    IF hash \in DOMAIN a.replies
    THEN [a EXCEPT
            !.reply_rx = [i \in DOMAIN @ |->
                            IF i \in SeqRange(a.replies[hash]) THEN res ELSE @[i]],
            !.replies = MapDel(@, hash)]
    ELSE a

RECURSIVE actor_reply_all(_, _, _)
actor_reply_all(a, hashes, res) ==
    IF hashes = << >> THEN a
    ELSE actor_reply_all(actor_reply(a, Head(hashes), res), Tail(hashes), res)

\* DownloadActor::on_peer_fail
actor_on_peer_fail(a, peer) ==
    LET r == queue_on_peer_fail(a.queue, peer)
        a1 == actor_reply_all([a EXCEPT !.queue = r.q], r.failed, ReplyNone)
    IN [a1 EXCEPT !.conns = @ \ {peer}]

\* mutant of actor_on_not_found: the waiters are answered without looking at
\* the remaining candidates
actor_on_not_found_always_reply(a, peer, hash) ==
    actor_reply([a EXCEPT !.queue = queue_on_not_found(@, hash, peer)], hash, ReplyNone)

\* DownloadActor::on_not_found
actor_on_not_found(a, peer, hash) ==
    LET a1 == [a EXCEPT !.queue = queue_on_not_found(@, hash, peer)]
    IN IF has_no_candidates(a1.queue, hash)
       THEN actor_reply(a1, hash, ReplyNone)
       ELSE a1

\* DownloadActor::start_download_unchecked
start_download_unchecked(a, peer, hash) ==
    IF peer \in a.conns
    THEN [a EXCEPT !.futs = @ \cup {<<peer, hash>>}]
    ELSE [a EXCEPT !.panicked = TRUE]

\* DownloadActor::on_peer_ready
actor_on_peer_ready(a, peer) ==
    LET r == try_next_for_peer(a.queue, peer)
        a1 == [a EXCEPT !.queue = r.q]
    IN IF r.next # NoHash
       THEN start_download_unchecked(a1, peer, r.next)
       ELSE [a1 EXCEPT !.conns = @ \ {peer}]

\* the for loop of DownloadActor::on_download_request
RECURSIVE push_candidates(_, _, _)
push_candidates(q, hash, peers) ==
    IF peers = << >> THEN q
    ELSE push_candidates(push_candidate(q, hash, Head(peers)), hash, Tail(peers))

\* what a poll of a DownloadFuture saw: nothing yet, Poll::Pending or
\* Poll::Ready(res); unanswered tells whether a request pushed for the hash
\* was without an answer of the actor at that moment
Observation(tag, hash, res, unanswered) ==
    [tag |-> tag, hash |-> hash, res |-> res, unanswered |-> unanswered]

NoObservation == Observation("NoCall", NoHash, ReplyUnused, FALSE)

\* a request pushed for the hash has not been answered by the actor
Unanswered(hash) ==
    \E i \in 1..npush : pushed[i].hash = hash /\ reply_rx[i].tag = "Pending"

SetActor(a) ==
    /\ replies' = a.replies
    /\ conns' = a.conns
    /\ pending_download_futs' = a.futs
    /\ queue' = a.queue
    /\ reply_rx' = a.reply_rx
    /\ actor_panicked' = a.panicked

DlInit ==
    /\ rx = << >>
    /\ npush = 0
    /\ pushed = << >>
    /\ reply_rx = [i \in 1..MaxPush |-> ReplyUnused]
    /\ replies = EmptyMap
    /\ conns = {}
    /\ dialing = {}
    /\ pending_download_futs = {}
    /\ queue = EmptyQueue
    /\ db = {}
    /\ not_found_by = {}
    /\ failed_peers = {}
    /\ actor_panicked = FALSE
    /\ pending_downloads = EmptyMap
    /\ finished_obs = NoObservation

\* the hashes a push may name: hashes are interchangeable, so the first push
\* is for h1
PushHashes == IF npush = 0 THEN {"h1"} ELSE Hashes

\* Downloader::push : send the request to the actor and register the future
Push ==
    /\ npush < MaxPush
    /\ \E hash \in PushHashes, peers \in PeerLists :
         /\ rx' = Append(rx, [hash |-> hash, peers |-> peers, reply |-> npush + 1])
         /\ pending_downloads' =
               IF hash \notin DOMAIN pending_downloads
               THEN MapPut(pending_downloads, hash, npush + 1)
               ELSE pending_downloads
         /\ pushed' = Append(pushed, [hash |-> hash, peers |-> peers])
    /\ npush' = npush + 1
    /\ reply_rx' = [reply_rx EXCEPT ![npush + 1] = ReplyPending]
    /\ UNCHANGED <<replies, conns, dialing, pending_download_futs, queue, db,
                   not_found_by, failed_peers, actor_panicked, finished_obs>>

\* mutant of db_has: the database is not consulted
db_has_never(database, hash) == FALSE

\* WritableFileDatabase::has
db_has(database, hash) == hash \in database

\* run: a request arrives; DownloadActor::on_download_request
OnDownloadRequest ==
    /\ ~actor_panicked
    /\ rx # << >>
    /\ LET req == Head(rx) IN
       IF db_has(db, req.hash)
       THEN /\ reply_rx' = [reply_rx EXCEPT
                              ![req.reply] = ReplySome(req.hash, BlobSize(req.hash))]
            /\ UNCHANGED <<replies, queue, dialing>>
       ELSE /\ replies' = MapPut(replies, req.hash,
                                 (IF req.hash \in DOMAIN replies
                                  THEN replies[req.hash] ELSE << >>) \o <<req.reply>>)
            /\ queue' = push_candidates(queue, req.hash, req.peers)
            /\ dialing' = dialing \cup
                            {p \in SeqRange(req.peers) : p \notin conns /\ p \notin dialing}
            /\ UNCHANGED reply_rx
    /\ rx' = Tail(rx)
    /\ UNCHANGED <<npush, pushed, conns, pending_download_futs, db, not_found_by,
                   failed_peers, actor_panicked, pending_downloads, finished_obs>>

\* run: dialer.next() yields Ok(conn)
DialOk ==
    /\ ~actor_panicked
    /\ \E peer \in dialing :
         /\ dialing' = dialing \ {peer}
         /\ SetActor(actor_on_peer_ready([ActorState EXCEPT !.conns = @ \cup {peer}], peer))
    /\ UNCHANGED <<rx, npush, pushed, db, not_found_by, failed_peers, pending_downloads,
                   finished_obs>>

\* run: dialer.next() yields Err
DialErr ==
    /\ ~actor_panicked
    /\ \E peer \in dialing :
         /\ dialing' = dialing \ {peer}
         /\ SetActor(actor_on_peer_fail(ActorState, peer))
         /\ failed_peers' = failed_peers \cup {peer}
    /\ UNCHANGED <<rx, npush, pushed, db, not_found_by, pending_downloads,
                   finished_obs>>

\* run: a download future yields Ok(Some((hash, size)))
DownloadSome ==
    /\ ~actor_panicked
    /\ \E f \in pending_download_futs :
         LET peer == f[1]
             hash == f[2]
             a0 == [ActorState EXCEPT !.futs = @ \ {f}]
             a1 == [a0 EXCEPT !.queue = queue_on_success(@, hash, peer)]
             a2 == actor_reply(a1, hash, ReplySome(hash, BlobSize(hash)))
         IN /\ SetActor(actor_on_peer_ready(a2, peer))
            /\ db' = db \cup {hash}
    /\ UNCHANGED <<rx, npush, pushed, dialing, not_found_by, failed_peers, pending_downloads,
                   finished_obs>>

\* run: a download future yields Ok(None)
DownloadNone ==
    /\ ~actor_panicked
    /\ \E f \in pending_download_futs :
         LET peer == f[1]
             hash == f[2]
             a0 == [ActorState EXCEPT !.futs = @ \ {f}]
             a1 == actor_on_not_found(a0, peer, hash)
         IN /\ SetActor(actor_on_peer_ready(a1, peer))
            /\ not_found_by' = not_found_by \cup {f}
    /\ UNCHANGED <<rx, npush, pushed, dialing, db, failed_peers, pending_downloads,
                   finished_obs>>

\* run: a download future yields Err
DownloadErr ==
    /\ ~actor_panicked
    /\ \E f \in pending_download_futs :
         LET peer == f[1]
             a0 == [ActorState EXCEPT !.futs = @ \ {f}]
         IN /\ SetActor(actor_on_peer_fail(a0, peer))
            /\ failed_peers' = failed_peers \cup {peer}
    /\ UNCHANGED <<rx, npush, pushed, dialing, db, not_found_by, pending_downloads,
                   finished_obs>>

\* Downloader::finished(hash), the returned future polled once.  The shared
\* future of a push is lazy: it reads reply_rx and removes the entry of the
\* hash from pending_downloads only when a clone of it is polled.
Finished ==
    /\ ~actor_panicked
    /\ \E hash \in Hashes :
         IF hash \in DOMAIN pending_downloads
         THEN LET res == reply_rx[pending_downloads[hash]] IN
              IF res.tag = "Pending"
              THEN /\ finished_obs' = Observation("Pending", hash, ReplyPending, TRUE)
                   /\ UNCHANGED pending_downloads
              ELSE /\ finished_obs' = Observation("Ready", hash, res, Unanswered(hash))
                   /\ pending_downloads' = MapDel(pending_downloads, hash)
         ELSE /\ finished_obs' = Observation("Ready", hash, ReplyNone, Unanswered(hash))
              /\ UNCHANGED pending_downloads
    /\ UNCHANGED <<rx, npush, pushed, reply_rx, replies, conns, dialing,
                   pending_download_futs, queue, db, not_found_by, failed_peers,
                   actor_panicked>>

(***************************************************************************)
(*                PROVIDER STREAM HANDLER (provider.rs)                    *)
(***************************************************************************)
\* the collection served: a root blob that lists its children in order
Root == "root"
Collection == <<"c1", "c2", "c3">>
Blobs == {Root} \cup SeqRange(Collection)

\* bound of the provider model: the largest offset a RangeSpec may name
MaxOffset == 4

\* a RangeSpec, as the set of offsets whose sub-range is non-empty
RangeSpecs == SUBSET (0..MaxOffset)

VARIABLES
    pv_pc,        \* where handle_stream is
    pv_db,        \* the hashes present in the blob map
    pv_stream,    \* what the client put on the stream
    pv_req,       \* the GetRequest being served (ranges)
    pv_log,       \* events emitted, collaborators called and frames written, in order
    pv_rest,      \* transfer_collection: offsets still to iterate
    pv_prev,      \* transfer_collection: prev
    pv_cursor,    \* number of children the collection cursor has passed
    pv_tc,        \* what transfer_collection returned
    pv_result,    \* what handle_stream returned
    pv_iofail     \* history: a read, open, parse, write or finish failed

pvVars == <<pv_pc, pv_db, pv_stream, pv_req, pv_log, pv_rest, pv_prev, pv_cursor,
            pv_tc, pv_result, pv_iofail>>

Entry(k, h, i) == [k |-> k, h |-> h, i |-> i]

Ev(k) == Entry(k, "-", 0)

RequestEvents == {"GetRequestReceived", "CustomGetRequestReceived"}
TerminalEvents == {"TransferCollectionCompleted", "TransferAborted"}
WriteKinds == {"write_get", "write_blob", "write_partial"}

CountOf(log, kinds) == Cardinality({n \in DOMAIN log : log[n].k \in kinds})

\* RangeSpec::iter_non_empty : the non-empty offsets in increasing order
RECURSIVE iter_non_empty(_)
iter_non_empty(ranges) ==
    IF ranges = {} THEN << >>
    ELSE LET m == CHOOSE x \in ranges : \A y \in ranges : x <= y
         IN <<m>> \o iter_non_empty(ranges \ {m})

\* mutant of just_root: every request is taken as one for a collection
just_root_never(ranges) == FALSE

\* matches!(request.ranges.single(), Some((0, _)))
just_root(ranges) == ranges = {0}

\* mutant of read_request: the check for data past the request is missing
read_request_no_extra_check(stream, read_err) ==
    IF read_err THEN "Err"
    ELSE IF stream.frame = "Eof" THEN "Err"
    ELSE IF stream.frame = "Garbage" THEN "Err"
    ELSE stream.frame

\* read_request : what it returns for a given stream content
read_request(stream, read_err) ==
    IF read_err THEN "Err"
    ELSE IF stream.frame = "Eof" THEN "Err"
    ELSE IF stream.frame = "Garbage" THEN "Err"
    ELSE IF stream.extra THEN "Err"
    ELSE stream.frame

\* mutant of notify_transfer_aborted: no event is sent
notify_transfer_aborted_silent(log) == log

\* ResponseWriter::notify_transfer_aborted
notify_transfer_aborted(log) == Append(log, Ev("TransferAborted"))

\* ResponseWriter::notify_transfer_completed
notify_transfer_completed(log) == Append(log, Ev("TransferCollectionCompleted"))

\* handle_stream is entered with a fresh stream
PvStart ==
    /\ pv_pc = "read"
    /\ pv_stream = [frame |-> "Eof", extra |-> FALSE]
    /\ pv_req = {}
    /\ pv_log = << >>
    /\ pv_rest = << >>
    /\ pv_prev = 0
    /\ pv_cursor = 0
    /\ pv_tc = "none"
    /\ pv_result = "none"
    /\ pv_iofail = FALSE

PvInit ==
    /\ PvStart
    /\ pv_db \in SUBSET Blobs

\* handle_stream, step 1: read_request
ReadRequest ==
    /\ pv_pc = "read"
    /\ \E frame \in {"Get", "CustomGet", "Garbage", "Eof"}, extra \in BOOLEAN,
          ranges \in RangeSpecs, read_err \in BOOLEAN :
         LET stream == [frame |-> frame, extra |-> extra]
             r == read_request(stream, read_err)
         IN /\ frame # "Get" => ranges = {}
            /\ pv_stream' = stream
            /\ pv_iofail' = read_err
            /\ IF r = "Err"
               THEN /\ pv_log' = notify_transfer_aborted(pv_log)
                    /\ pv_result' = "Err"
                    /\ pv_pc' = "done"
                    /\ pv_req' = {}
               ELSE /\ pv_pc' = "authorize"
                    /\ pv_req' = ranges
                    /\ UNCHANGED <<pv_log, pv_result>>
    /\ UNCHANGED <<pv_db, pv_rest, pv_prev, pv_cursor, pv_tc>>

\* mutant of after_authorize: the early return on an authorization error is missing
after_authorize_no_return(ok, frame) ==
    IF frame = "Get" THEN "get" ELSE "custom"

\* handle_stream: where it continues once authorize returned
after_authorize(ok, frame) ==
    IF ok THEN (IF frame = "Get" THEN "get" ELSE "custom") ELSE "done"

\* handle_stream, step 2: authorization_handler.authorize
Authorize ==
    /\ pv_pc = "authorize"
    /\ \E ok \in BOOLEAN :
         IF ok
         THEN /\ pv_log' = Append(pv_log, Entry("authorize", "-", 1))
              /\ pv_pc' = after_authorize(TRUE, pv_stream.frame)
              /\ UNCHANGED pv_result
         ELSE /\ pv_log' = notify_transfer_aborted(
                                Append(pv_log, Entry("authorize", "-", 0)))
              /\ pv_result' = "Err"
              /\ pv_pc' = after_authorize(FALSE, pv_stream.frame)
    /\ UNCHANGED <<pv_db, pv_stream, pv_req, pv_rest, pv_prev, pv_cursor, pv_tc,
                   pv_iofail>>

\* mutant of write_get_reply: the synthesized Get is not written back
write_get_reply_missing(log) == log

\* handle_custom_get: write_lp of the serialized Get made by the handler
write_get_reply(log) == Append(log, Ev("write_get"))

\* handle_custom_get, up to its call of handle_get
HandleCustomGet ==
    /\ pv_pc = "custom"
    /\ \E outcome \in {"ok", "handler_err", "write_err"}, ranges \in RangeSpecs :
         LET log1 == Append(Append(pv_log, Ev("CustomGetRequestReceived")),
                            Ev("custom_handle"))
         IN CASE outcome = "handler_err" ->
                   /\ ranges = {}
                   /\ pv_log' = log1
                   /\ pv_result' = "Err"
                   /\ pv_pc' = "done"
                   /\ UNCHANGED <<pv_req, pv_iofail>>
              [] outcome = "write_err" ->
                   /\ pv_log' = log1
                   /\ pv_req' = ranges
                   /\ pv_result' = "Err"
                   /\ pv_pc' = "done"
                   /\ pv_iofail' = TRUE
              [] outcome = "ok" ->
                   /\ pv_log' = write_get_reply(log1)
                   /\ pv_req' = ranges
                   /\ pv_pc' = "get"
                   /\ UNCHANGED <<pv_result, pv_iofail>>
    /\ UNCHANGED <<pv_db, pv_stream, pv_rest, pv_prev, pv_cursor, pv_tc>>

\* handle_get, up to its call of transfer_collection
HandleGet ==
    /\ pv_pc = "get"
    /\ LET log1 == Append(Append(pv_log, Ev("GetRequestReceived")),
                          Entry("db_get", Root, 0))
       IN IF Root \in pv_db
          THEN \E open_ok \in BOOLEAN :
                 /\ pv_log' = log1
                 /\ IF open_ok
                    THEN /\ pv_pc' = "transfer"
                         /\ UNCHANGED <<pv_result, pv_iofail>>
                    ELSE /\ pv_pc' = "done"
                         /\ pv_result' = "Err"
                         /\ pv_iofail' = TRUE
          ELSE \E finish_ok \in BOOLEAN :
                 /\ pv_pc' = "done"
                 /\ IF finish_ok
                    THEN /\ pv_log' = Append(notify_transfer_aborted(log1), Ev("finish"))
                         /\ pv_result' = "Ok"
                         /\ UNCHANGED pv_iofail
                    ELSE /\ pv_log' = notify_transfer_aborted(log1)
                         /\ pv_result' = "Err"
                         /\ pv_iofail' = TRUE
    /\ UNCHANGED <<pv_db, pv_stream, pv_req, pv_rest, pv_prev, pv_cursor, pv_tc>>

\* mutant of end_transfer: the completion is notified after every transfer
end_transfer_always_completed(log, status) ==
    notify_transfer_completed(IF status = "Sent" THEN log ELSE notify_transfer_aborted(log))

\* handle_get after transfer_collection returned `status`
end_transfer(log, status) ==
    IF status = "Sent" THEN notify_transfer_completed(log)
    ELSE notify_transfer_aborted(log)

ReturnFromTransfer(log, status) ==
    /\ pv_tc' = status
    /\ pv_log' = end_transfer(log, status)
    /\ pv_result' = IF status = "Err" THEN "Err" ELSE "Ok"
    /\ pv_iofail' = (pv_iofail \/ status = "Err")
    /\ pv_pc' = "done"

\* transfer_collection, before the loop: parse the collection unless just_root
TransferStart ==
    /\ pv_pc = "transfer"
    /\ IF just_root(pv_req)
       THEN /\ pv_pc' = "loop"
            /\ pv_rest' = iter_non_empty(pv_req)
            /\ UNCHANGED <<pv_log, pv_tc, pv_result, pv_iofail>>
       ELSE \E parse_ok \in BOOLEAN :
              IF parse_ok
              THEN /\ pv_log' = Append(Append(pv_log, Ev("parse")),
                                       Ev("TransferCollectionStarted"))
                   /\ pv_pc' = "loop"
                   /\ pv_rest' = iter_non_empty(pv_req)
                   /\ UNCHANGED <<pv_tc, pv_result, pv_iofail>>
              ELSE /\ ReturnFromTransfer(Append(pv_log, Ev("parse")), "Err")
                   /\ UNCHANGED pv_rest
    /\ UNCHANGED <<pv_db, pv_stream, pv_req, pv_prev, pv_cursor>>

\* mutant of cursor_after_skip: the gap is not skipped
cursor_after_skip_no_skip(prev, offset, cursor) == cursor

\* transfer_collection: where the cursor stands after "skip to the next blob
\* if there is a gap"
cursor_after_skip(prev, offset, cursor) ==
    IF prev < offset - 1 THEN cursor + (offset - prev - 1) ELSE cursor

\* mutant of send_blob_status: a blob missing from the map is not noticed
send_blob_status_always_sent(blob_map, name) == "Sent"

\* send_blob : the status it returns when no read or write fails
send_blob_status(blob_map, name) ==
    IF name \in blob_map THEN "Sent" ELSE "NotFound"

\* transfer_collection, one iteration of the loop over iter_non_empty
TransferOffset ==
    /\ pv_pc = "loop"
    /\ pv_rest # << >>
    /\ LET offset == Head(pv_rest) IN
       IF offset = 0
       THEN \E write_ok \in BOOLEAN :
              /\ UNCHANGED <<pv_prev, pv_cursor>>
              /\ IF write_ok
                 THEN /\ pv_log' = Append(pv_log, Entry("write_blob", Root, 0))
                      /\ pv_rest' = Tail(pv_rest)
                      /\ UNCHANGED <<pv_pc, pv_tc, pv_result, pv_iofail>>
                 ELSE /\ ReturnFromTransfer(
                            Append(pv_log, Entry("write_partial", Root, 0)), "Err")
                      /\ UNCHANGED pv_rest
       ELSE \E fail \in {"none", "cursor", "send"} :
              LET skipped == cursor_after_skip(pv_prev, offset, pv_cursor)
              IN IF fail = "cursor"
                 THEN /\ ReturnFromTransfer(pv_log, "Err")
                      /\ UNCHANGED <<pv_rest, pv_prev, pv_cursor>>
                 ELSE IF skipped >= Len(Collection)
                 THEN \* c.next() is None: break
                      /\ fail = "none"
                      /\ pv_rest' = << >>
                      /\ pv_cursor' = skipped
                      /\ UNCHANGED <<pv_log, pv_prev, pv_pc, pv_tc, pv_result, pv_iofail>>
                 ELSE
                   LET hash == Collection[skipped + 1]
                       log1 == Append(pv_log, Entry("db_get", hash, offset))
                   IN /\ pv_cursor' = skipped + 1
                      /\ IF send_blob_status(pv_db, hash) = "NotFound"
                         THEN \* send_blob returns NotFound; finish the stream
                              /\ UNCHANGED <<pv_rest, pv_prev>>
                              /\ IF fail = "none"
                                 THEN ReturnFromTransfer(Append(log1, Ev("finish")),
                                                         "NotFound")
                                 ELSE ReturnFromTransfer(log1, "Err")
                         ELSE IF fail = "send"
                         THEN /\ ReturnFromTransfer(
                                    Append(log1, Entry("write_partial", hash, offset)),
                                    "Err")
                              /\ UNCHANGED <<pv_rest, pv_prev>>
                         ELSE /\ pv_log' = Append(Append(log1,
                                               Entry("write_blob", hash, offset)),
                                               Entry("TransferBlobCompleted", hash,
                                                     offset - 1))
                              /\ pv_prev' = offset
                              /\ pv_rest' = Tail(pv_rest)
                              /\ UNCHANGED <<pv_pc, pv_tc, pv_result, pv_iofail>>
    /\ UNCHANGED <<pv_db, pv_stream, pv_req>>

\* transfer_collection after the loop: finish the stream, return Sent
TransferFinish ==
    /\ pv_pc = "loop"
    /\ pv_rest = << >>
    /\ \E finish_ok \in BOOLEAN :
         IF finish_ok
         THEN ReturnFromTransfer(Append(pv_log, Ev("finish")), "Sent")
         ELSE ReturnFromTransfer(pv_log, "Err")
    /\ UNCHANGED <<pv_db, pv_stream, pv_req, pv_rest, pv_prev, pv_cursor>>

(***************************************************************************)
(*                 PURPOSE FILE NAMES (provider.rs)                        *)
(* Text is a sequence of one-character strings, bytes are 0..255.          *)
(***************************************************************************)
HashLen == 32
UuidLen == 16

\* bound of the file-name model: the longest Meta name
MaxNameLen == 33

\* the byte values the model draws from
ByteValues == {0, 171, 255}

\* the byte strings of length n of the model: constant fills and one mixed pattern
ByteStrings(n) ==
    {[i \in 1..n |-> b] : b \in ByteValues}
        \cup {[i \in 1..n |-> (i * 37) % 256]}

HexDigits == <<"0", "1", "2", "3", "4", "5", "6", "7", "8", "9",
               "a", "b", "c", "d", "e", "f">>
UpperHexDigits == <<"0", "1", "2", "3", "4", "5", "6", "7", "8", "9",
                    "A", "B", "C", "D", "E", "F">>

\* hex::encode
RECURSIVE hex_encode(_)
hex_encode(bytes) ==
    IF bytes = << >> THEN << >>
    ELSE <<HexDigits[(Head(bytes) \div 16) + 1], HexDigits[(Head(bytes) % 16) + 1]>>
            \o hex_encode(Tail(bytes))

IsHexDigit(c) == \E v \in 1..16 : HexDigits[v] = c \/ UpperHexDigits[v] = c

HexValue(c) == (CHOOSE v \in 1..16 : HexDigits[v] = c \/ UpperHexDigits[v] = c) - 1

HexErr == <<"Err">>

\* hex::decode_to_slice(text, &mut [0u8; n]) : the bytes, or HexErr
hex_decode_to_slice(text, n) ==
    IF Len(text) % 2 # 0 THEN HexErr
    ELSE IF \E i \in DOMAIN text : ~IsHexDigit(text[i]) THEN HexErr
    ELSE IF Len(text) \div 2 # n THEN HexErr
    ELSE [i \in 1..n |-> 16 * HexValue(text[2 * i - 1]) + HexValue(text[2 * i])]

Str_data == <<"d", "a", "t", "a">>
Str_paths == <<"p", "a", "t", "h", "s">>
Str_meta == <<"m", "e", "t", "a">>
OUTBOARD_EXT == <<"o", "u", "t", "b", "o", "a", "r", "d">>

Purpose(kind, hash, uuid, name) ==
    [kind |-> kind, hash |-> hash, uuid |-> uuid, name |-> name]

PurposeErr == Purpose("Err", << >>, << >>, << >>)

\* the values of enum Purpose in the model
Purposes ==
    {Purpose("PartialData", h, u, << >>) :
        h \in ByteStrings(HashLen), u \in ByteStrings(UuidLen)}
    \cup {Purpose("PartialOutboard", h, u, << >>) :
        h \in ByteStrings(HashLen), u \in ByteStrings(UuidLen)}
    \cup {Purpose(k, h, << >>, << >>) :
        k \in {"Data", "Outboard", "Paths"}, h \in ByteStrings(HashLen)}
    \cup {Purpose("Meta", << >>, << >>, name) :
        name \in UNION {ByteStrings(n) : n \in 0..MaxNameLen}}

\* impl fmt::Display for Purpose
display(p) ==
    CASE p.kind = "PartialData" ->
           hex_encode(p.hash) \o <<"-">> \o hex_encode(p.uuid) \o <<".">> \o Str_data
      [] p.kind = "PartialOutboard" ->
           hex_encode(p.hash) \o <<"-">> \o hex_encode(p.uuid) \o <<".">> \o OUTBOARD_EXT
      [] p.kind = "Paths" -> hex_encode(p.hash) \o <<".">> \o Str_paths
      [] p.kind = "Data" -> hex_encode(p.hash) \o <<".">> \o Str_data
      [] p.kind = "Outboard" -> hex_encode(p.hash) \o <<".">> \o OUTBOARD_EXT
      [] p.kind = "Meta" -> hex_encode(p.name) \o <<".">> \o Str_meta

Positions(s, c) == {i \in DOMAIN s : s[i] = c}

Max(S) == CHOOSE x \in S : \A y \in S : y <= x
Min(S) == CHOOSE x \in S : \A y \in S : x <= y

\* str::strip_prefix('.').unwrap_or(base)
strip_prefix_dot(base) ==
    IF base # << >> /\ Head(base) = "." THEN Tail(base) ELSE base

\* impl FromStr for Purpose
from_str(s) ==
    IF Positions(s, ".") = {} THEN PurposeErr
    ELSE
      LET dot == Max(Positions(s, "."))
          ext == SubSeq(s, dot + 1, Len(s))
          base == strip_prefix_dot(SubSeq(s, 1, dot - 1))
      IN IF Positions(base, "-") # {}
         THEN LET dash == Min(Positions(base, "-"))
                  base2 == SubSeq(base, 1, dash - 1)
                  uuid == hex_decode_to_slice(SubSeq(base, dash + 1, Len(base)), UuidLen)
                  hash == hex_decode_to_slice(base2, HashLen)
              IN IF uuid = HexErr THEN PurposeErr
                 ELSE IF ext = Str_data
                      THEN IF hash = HexErr THEN PurposeErr
                           ELSE Purpose("PartialData", hash, uuid, << >>)
                 ELSE IF ext = OUTBOARD_EXT
                      THEN IF hash = HexErr THEN PurposeErr
                           ELSE Purpose("PartialOutboard", hash, uuid, << >>)
                 ELSE PurposeErr
         ELSE LET hash == hex_decode_to_slice(base, HashLen)
              IN IF hash = HexErr THEN PurposeErr
                 ELSE IF ext = Str_data THEN Purpose("Data", hash, << >>, << >>)
                 ELSE IF ext = OUTBOARD_EXT THEN Purpose("Outboard", hash, << >>, << >>)
                 ELSE IF ext = Str_paths THEN Purpose("Paths", hash, << >>, << >>)
                 ELSE IF ext = Str_meta THEN Purpose("Meta", << >>, << >>, hash)
                 ELSE PurposeErr

VARIABLES
    pu_pc,        \* "start", "displayed" or "parsed"
    pu_purpose,   \* the Purpose under test
    pu_text,      \* its display form
    pu_parsed     \* what from_str made of the text

puVars == <<pu_pc, pu_purpose, pu_text, pu_parsed>>

PuStart ==
    /\ pu_pc = "start"
    /\ pu_text = << >>
    /\ pu_parsed = PurposeErr

PuInit ==
    /\ PuStart
    /\ pu_purpose \in Purposes

PuIdle ==
    /\ PuStart
    /\ pu_purpose = PurposeErr

\* purpose.to_string()
Display ==
    /\ pu_pc = "start"
    /\ pu_text' = display(pu_purpose)
    /\ pu_pc' = "displayed"
    /\ UNCHANGED <<pu_purpose, pu_parsed>>

\* Purpose::from_str(&text)
Parse ==
    /\ pu_pc = "displayed"
    /\ pu_parsed' = from_str(pu_text)
    /\ pu_pc' = "parsed"
    /\ UNCHANGED <<pu_purpose, pu_text>>

(***************************************************************************)
(*              REPLICA STORE (iroh-sync/src/store/memory.rs)              *)
(* records : RecordIdentifier -> (timestamp -> SignedEntry), the value of  *)
(* replica_records for the one namespace of the instance.                  *)
(***************************************************************************)
\* bound of the store model: the number of distinct keys
NumKeys == 2

Keys == 1..NumKeys
Timestamps == {1, 2}
ContentHashes == {1, 2}

\* verifying keys: the namespace, the author, and a key that is neither
NamespaceKey == "namespace"
AuthorKey == "author"
MalloryKey == "mallory"

RecordIdentifier(key) == [key |-> key, namespace |-> NamespaceKey, author |-> AuthorKey]

RecordIdentifiers == {RecordIdentifier(k) : k \in Keys}

\* Ord for RecordIdentifier (one namespace and one author: decided by the key)
IdLess(a, b) == a.key < b.key

Record(ts, hash) == [timestamp |-> ts, hash |-> hash]

EntryOf(id, record) == [id |-> id, record |-> record]

Entries ==
    {EntryOf(id, Record(ts, h)) :
        id \in RecordIdentifiers, ts \in Timestamps, h \in ContentHashes}

\* SigningKey::sign : a signature is determined by the signer and the message
Sign(signer, msg) == [signer |-> signer, msg |-> msg]

\* NamespaceId::verify / AuthorId::verify (verify_strict)
verify_strict(public_key, msg, signature) ==
    signature.signer = public_key /\ signature.msg = msg

SignedEntryOf(entry, ns_sig, au_sig) ==
    [entry |-> entry, namespace_signature |-> ns_sig, author_signature |-> au_sig]

\* an entry correctly signed by its namespace and its author
SignedBy(entry) ==
    SignedEntryOf(entry, Sign(entry.id.namespace, entry), Sign(entry.id.author, entry))

\* the same entry with the other content hash (a message that was not signed)
Tampered(entry) ==
    [entry EXCEPT !.record.hash = CHOOSE h \in ContentHashes : h # @]

\* every SignedEntry a caller may hand to put: well signed, signed by a
\* foreign key, or carrying signatures made for another record
SignedEntries ==
    UNION {{SignedBy(e),
            SignedEntryOf(e, Sign(MalloryKey, e), Sign(e.id.author, e)),
            SignedEntryOf(e, Sign(e.id.namespace, e), Sign(MalloryKey, e)),
            SignedEntryOf(e, Sign(e.id.namespace, Tampered(e)),
                             Sign(e.id.author, Tampered(e)))} : e \in Entries}

\* SignedEntry::verify : both signatures over the entry
SignedEntry_verify(v) ==
    /\ verify_strict(v.entry.id.namespace, v.entry, v.namespace_signature)
    /\ verify_strict(v.entry.id.author, v.entry, v.author_signature)

\* BTreeMap::last_key_value on the timestamp map of one identifier
last_key_value(values) == values[Max(DOMAIN values)]

\* mutant of store_put: the verification is skipped
store_put_unverified(records, k, v) ==
    LET timestamp == v.entry.record.timestamp
        old == IF k \in DOMAIN records THEN records[k] ELSE EmptyMap
    IN MapPut(records, k, MapPut(old, timestamp, v))

\* mutant of store_put: nothing is stored
store_put_dropped(records, k, v) == records

\* ReplicaStoreInstance::put
store_put(records, k, v) ==
    IF SignedEntry_verify(v)
    THEN LET timestamp == v.entry.record.timestamp
             old == IF k \in DOMAIN records THEN records[k] ELSE EmptyMap
         IN MapPut(records, k, MapPut(old, timestamp, v))
    ELSE records

\* ReplicaStoreInstance::remove (the map afterwards)
store_remove(records, key) == MapDel(records, key)

\* ReplicaStoreInstance::get
store_get(records, key) ==
    IF key \in DOMAIN records /\ DOMAIN records[key] # {}
    THEN {last_key_value(records[key])}
    ELSE {}

\* Store::get_latest_by_key_and_author
get_latest_by_key_and_author(records, key, author) ==
    LET id == [RecordIdentifier(key) EXCEPT !.author = author]
    IN IF id \in DOMAIN records /\ DOMAIN records[id] # {}
       THEN {last_key_value(records[id])}
       ELSE {}

\* RecordsIter: the identifiers in BTreeMap order
RECURSIVE SortedIds(_)
SortedIds(ids) ==
    IF ids = {} THEN << >>
    ELSE LET m == CHOOSE x \in ids : \A y \in ids : x = y \/ IdLess(x, y)
         IN <<m>> \o SortedIds(ids \ {m})

RangeOf(x, y) == [x |-> x, y |-> y]

\* RangeKey::contains : half-open, cyclic; x = y is the whole key space
range_contains(k, range) ==
    IF IdLess(range.x, range.y) THEN (~IdLess(k, range.x)) /\ IdLess(k, range.y)
    ELSE IF range.x = range.y THEN TRUE
    ELSE (~IdLess(k, range.x)) \/ IdLess(k, range.y)

\* Option<Range>: None is the empty set, Some(r) is {r}
NoRange == {}

SomeRange(x, y) == {RangeOf(x, y)}

\* mutant of range_matches: the limit is not looked at
range_matches_no_limit(x, range, limit) == \A r \in range : range_contains(x, r)

\* RangeIterator::matches
range_matches(x, range, limit) ==
    /\ \A r \in range : range_contains(x, r)
    /\ \A r \in limit : range_contains(x, r)

\* RangeIterator::next, run to the end: (identifier, latest entry) in order;
\* the iteration stops at a matching identifier whose timestamp map is empty
RECURSIVE range_items(_, _, _, _)
range_items(records, ids, range, limit) ==
    IF ids = << >> THEN << >>
    ELSE IF range_matches(Head(ids), range, limit)
         THEN IF DOMAIN records[Head(ids)] = {} THEN << >>
              ELSE <<[k |-> Head(ids), v |-> last_key_value(records[Head(ids)])]>>
                      \o range_items(records, Tail(ids), range, limit)
         ELSE range_items(records, Tail(ids), range, limit)

\* ReplicaStoreInstance::get_range
store_get_range(records, range, limit) ==
    range_items(records, SortedIds(DOMAIN records), range, limit)

\* ReplicaStoreInstance::all
store_all(records) == store_get_range(records, NoRange, NoRange)

\* Store::get_all : every (timestamp, entry) of the namespace
get_all(records) ==
    UNION {{records[id][t] : t \in DOMAIN records[id]} : id \in DOMAIN records}

VARIABLES
    st_records,     \* replica_records of the namespace
    st_valid_puts,  \* history: per identifier, the verified entries put since its last remove
    st_last         \* history: what the last operation did

stVars == <<st_records, st_valid_puts, st_last>>

StInit ==
    /\ st_records = EmptyMap
    /\ st_valid_puts = [id \in RecordIdentifiers |-> {}]
    /\ st_last = "none"

\* put(k, v) with v.entry.id = k, for any SignedEntry
Put ==
    \E v \in SignedEntries :
        LET k == v.entry.id IN
        /\ st_records' = store_put(st_records, k, v)
        /\ st_valid_puts' =
              IF v = SignedBy(v.entry)
              THEN [st_valid_puts EXCEPT ![k] = @ \cup {v}]
              ELSE st_valid_puts
        /\ st_last' = IF st_records' = st_records /\ (k \notin DOMAIN st_records
                                                       \/ v \notin get_all(st_records))
                      THEN "dropped" ELSE "stored"

\* remove(key)
Remove ==
    \E key \in RecordIdentifiers :
        /\ st_records' = store_remove(st_records, key)
        /\ st_valid_puts' = [st_valid_puts EXCEPT ![key] = {}]
        /\ st_last' = "removed"

(***************************************************************************)
(*        SYNC PROTOCOL (iroh/src/sync.rs over the replica store)          *)
(* run_alice and run_bob exchange length-prefixed messages over a pair of  *)
(* streams.  The range reconciliation of iroh_sync::ranger is not part of  *)
(* the sources at hand and follows the protocol of the specification.      *)
(***************************************************************************)
\* RecordIdentifier::default(), returned by get_first on an empty replica
DefaultIdentifier == [key |-> 0, namespace |-> "default", author |-> "default"]

\* ReplicaStoreInstance::get_first
store_get_first(records) ==
    IF DOMAIN records = {} THEN DefaultIdentifier
    ELSE CHOOSE x \in DOMAIN records : \A y \in DOMAIN records : x = y \/ IdLess(x, y)

\* ReplicaStoreInstance::len
store_len(records) == Cardinality(DOMAIN records)

\* Fingerprint::empty()
EmptyFingerprint == {}

\* RecordIdentifier::as_fingerprint : a hash of the identifier, collision free
as_fingerprint(k) == {k}

\* impl BitXorAssign for Fingerprint
Xor(a, b) == (a \ b) \cup (b \ a)

RECURSIVE xor_keys(_, _)
xor_keys(fp, elements) ==
    IF elements = << >> THEN fp
    ELSE xor_keys(Xor(fp, as_fingerprint(Head(elements).k)), Tail(elements))

\* ReplicaStoreInstance::get_fingerprint
get_fingerprint(records, range, limit) ==
    xor_keys(EmptyFingerprint, store_get_range(records, {range}, limit))

\* threshold of entries below which a range is answered with its entries
MaxSetSize == 1

RangeFingerprint(range, fp) ==
    [tag |-> "RangeFingerprint", range |-> range, fingerprint |-> fp,
     values |-> << >>, have_local |-> FALSE]

RangeItem(range, values, have_local) ==
    [tag |-> "RangeItem", range |-> range, fingerprint |-> EmptyFingerprint,
     values |-> values, have_local |-> have_local]

\* Replica::sync_initial_message : the full key space with its fingerprint
sync_initial_message(records) ==
    LET x == store_get_first(records)
        range == RangeOf(x, x)
    IN <<RangeFingerprint(range, get_fingerprint(records, range, NoRange))>>

RECURSIVE put_all(_, _)
put_all(records, values) ==
    IF values = << >> THEN records
    ELSE put_all(store_put(records, Head(values).k, Head(values).v), Tail(values))

\* the local entries of the range, in cyclic order from range.x
cyclic_values(records, range) ==
    LET vals == store_get_range(records, {range}, NoRange)
    IN SelectSeq(vals, LAMBDA e : ~IdLess(e.k, range.x))
          \o SelectSeq(vals, LAMBDA e : IdLess(e.k, range.x))

\* answer to one (range, fingerprint) part
on_range_fingerprint(records, part) ==
    LET range == part.range
        local_values == store_get_range(records, {range}, NoRange)
        rot == cyclic_values(records, range)
        m == rot[(Len(rot) \div 2) + 1].k
        lo == RangeOf(range.x, m)
        hi == RangeOf(m, range.y)
    IN IF get_fingerprint(records, range, NoRange) = part.fingerprint THEN << >>
       ELSE IF Len(local_values) <= MaxSetSize
            THEN <<RangeItem(range, local_values, FALSE)>>
            ELSE <<RangeFingerprint(lo, get_fingerprint(records, lo, NoRange)),
                   RangeFingerprint(hi, get_fingerprint(records, hi, NoRange))>>

\* answer to one (range, entries) part: the local entries the sender lacks
item_diff(records, part) ==
    IF part.have_local THEN << >>
    ELSE SelectSeq(store_get_range(records, {part.range}, NoRange),
                   LAMBDA e : \A n \in DOMAIN part.values : part.values[n].k # e.k)

\* mutant of on_range_item: the entries received are sent back
on_range_item_echo(records, part) == <<RangeItem(part.range, part.values, FALSE)>>

on_range_item(records, part) ==
    IF item_diff(records, part) = << >> THEN << >>
    ELSE <<RangeItem(part.range, item_diff(records, part), TRUE)>>

\* Replica::sync_process_message : [records, out]; out = << >> is None
RECURSIVE sync_process_message(_, _, _)
sync_process_message(records, parts, out) ==
    IF parts = << >> THEN [records |-> records, out |-> out]
    ELSE LET part == Head(parts) IN
         IF part.tag = "RangeItem"
         THEN sync_process_message(put_all(records, part.values), Tail(parts),
                                   out \o on_range_item(records, part))
         ELSE sync_process_message(records, Tail(parts),
                                   out \o on_range_fingerprint(records, part))

\* enum Message
MsgInit(message) == [tag |-> "Init", message |-> message]

MsgSync(message) == [tag |-> "Sync", message |-> message]

\* the replica holding exactly the (well signed) entries of S
RecordsOf(S) ==
    [id \in {e.id : e \in S} |->
        [t \in {e.record.timestamp : e \in {d \in S : d.id = id}} |->
            SignedBy(EntryOf(id, Record(t, 1)))]]

\* the entry sets of at most two entries
StreamEntrySets == {S \in SUBSET {e \in Entries : e.record.hash = 1} : Cardinality(S) <= 2}

\* the entry sets a replica may start with
EntrySets == SUBSET {e \in Entries : e.record.hash = 1}

VARIABLES
    sy_alice,       \* records of Alice's replica
    sy_bob,         \* records of the namespace in Bob's replica store
    sy_bob_known,   \* replica_store.get_replica(namespace) is Some
    sy_a2b,         \* messages written by Alice, not yet read by Bob
    sy_b2a,         \* messages written by Bob, not yet read by Alice
    sy_a_closed,    \* Alice's writer is closed
    sy_b_closed,    \* Bob's writer is closed
    sy_alice_pc,    \* run_alice: "init", "loop", "ok", "err"
    sy_bob_pc,      \* run_bob: "loop", "ok", "err"
    sy_replica,     \* run_bob's local `replica` is Some
    sy_A0,          \* history: Alice's records at the start
    sy_B0,          \* history: Bob's records at the start
    sy_injected,    \* number of messages written by a peer that ignores the protocol
    sy_run,         \* 1 in the first run of the protocol, 2 in the run right after it
    sy_A1,          \* history: Alice's records at the start of the current run
    sy_B1           \* history: Bob's records at the start of the current run

syVars == <<sy_alice, sy_bob, sy_bob_known, sy_a2b, sy_b2a, sy_a_closed, sy_b_closed,
            sy_alice_pc, sy_bob_pc, sy_replica, sy_A0, sy_B0, sy_injected,
                   sy_run, sy_A1, sy_B1>>

SyStart ==
    /\ sy_a2b = << >> /\ sy_b2a = << >>
    /\ sy_a_closed = FALSE /\ sy_b_closed = FALSE
    /\ sy_alice_pc = "init" /\ sy_bob_pc = "loop"
    /\ sy_replica = FALSE
    /\ sy_A0 = sy_alice /\ sy_B0 = sy_bob
    /\ sy_injected = 0
    /\ sy_run = 1 /\ sy_A1 = sy_alice /\ sy_B1 = sy_bob

SyInit ==
    /\ \E A \in EntrySets : sy_alice = RecordsOf(A)
    /\ \E B \in EntrySets : sy_bob = RecordsOf(B)
    /\ sy_bob_known \in BOOLEAN
    /\ SyStart

SyIdle ==
    /\ sy_alice = EmptyMap /\ sy_bob = EmptyMap
    /\ sy_bob_known = TRUE
    /\ SyStart

\* run_alice up to the loop: the Init message is written
AliceInit ==
    /\ sy_alice_pc = "init"
    /\ sy_a2b' = Append(sy_a2b, MsgInit(sync_initial_message(sy_alice)))
    /\ sy_alice_pc' = "loop"
    /\ UNCHANGED <<sy_alice, sy_bob, sy_bob_known, sy_b2a, sy_a_closed, sy_b_closed,
                   sy_bob_pc, sy_replica, sy_A0, sy_B0, sy_injected,
                   sy_run, sy_A1, sy_B1>>

\* one turn of run_alice's loop on a received message
AliceRead ==
    /\ sy_alice_pc = "loop" /\ sy_b2a # << >>
    /\ LET msg == Head(sy_b2a)
           res == sync_process_message(sy_alice, msg.message, << >>)
       IN /\ sy_b2a' = Tail(sy_b2a)
          /\ IF msg.tag = "Init"
             THEN /\ sy_alice_pc' = "err" /\ sy_a_closed' = TRUE
                  /\ UNCHANGED <<sy_alice, sy_a2b>>
             ELSE /\ sy_alice' = res.records
                  /\ IF res.out # << >>
                     THEN /\ sy_a2b' = Append(sy_a2b, MsgSync(res.out))
                          /\ UNCHANGED <<sy_alice_pc, sy_a_closed>>
                     ELSE /\ sy_alice_pc' = "ok" /\ sy_a_closed' = TRUE
                          /\ UNCHANGED sy_a2b
    /\ UNCHANGED <<sy_bob, sy_bob_known, sy_b_closed, sy_bob_pc, sy_replica, sy_A0, sy_B0, sy_injected,
                   sy_run, sy_A1, sy_B1>>

\* read_lp returns None: Bob's writer is closed and everything was read
AliceEof ==
    /\ sy_alice_pc = "loop" /\ sy_b2a = << >> /\ sy_b_closed
    /\ sy_alice_pc' = "ok" /\ sy_a_closed' = TRUE
    /\ UNCHANGED <<sy_alice, sy_bob, sy_bob_known, sy_a2b, sy_b2a, sy_b_closed,
                   sy_bob_pc, sy_replica, sy_A0, sy_B0, sy_injected,
                   sy_run, sy_A1, sy_B1>>

\* mutant of bob_accepts: a further Init message is taken like the first
bob_accepts_any_init(msg, replica, known) ==
    IF msg.tag = "Init" THEN known ELSE replica

\* run_bob: the ensure! and bail! conditions of the match on the message
bob_accepts(msg, replica, known) ==
    IF msg.tag = "Init" THEN ~replica /\ known ELSE replica

\* one turn of run_bob's loop on a received message
BobRead ==
    /\ sy_bob_pc = "loop" /\ sy_a2b # << >>
    /\ LET msg == Head(sy_a2b)
           res == sync_process_message(sy_bob, msg.message, << >>)
           accepted == bob_accepts(msg, sy_replica, sy_bob_known)
       IN /\ sy_a2b' = Tail(sy_a2b)
          /\ IF ~accepted
             THEN /\ sy_bob_pc' = "err" /\ sy_b_closed' = TRUE
                  /\ UNCHANGED <<sy_bob, sy_b2a, sy_replica>>
             ELSE /\ sy_bob' = res.records
                  /\ IF res.out # << >>
                     THEN /\ sy_b2a' = Append(sy_b2a, MsgSync(res.out))
                          /\ sy_replica' = TRUE
                          /\ UNCHANGED <<sy_bob_pc, sy_b_closed>>
                     ELSE /\ sy_bob_pc' = "ok" /\ sy_b_closed' = TRUE
                          /\ UNCHANGED <<sy_b2a, sy_replica>>
    /\ UNCHANGED <<sy_alice, sy_bob_known, sy_a_closed, sy_alice_pc, sy_A0, sy_B0, sy_injected,
                   sy_run, sy_A1, sy_B1>>

\* read_lp returns None: Alice's writer is closed and everything was read
BobEof ==
    /\ sy_bob_pc = "loop" /\ sy_a2b = << >> /\ sy_a_closed
    /\ sy_bob_pc' = "ok" /\ sy_b_closed' = TRUE
    /\ UNCHANGED <<sy_alice, sy_bob, sy_bob_known, sy_a2b, sy_b2a, sy_a_closed,
                   sy_alice_pc, sy_replica, sy_A0, sy_B0, sy_injected,
                   sy_run, sy_A1, sy_B1>>

\* both sides returned Ok: the same replicas run the protocol again, over
\* new streams
Restart ==
    /\ sy_run = 1 /\ sy_alice_pc = "ok" /\ sy_bob_pc = "ok"
    /\ sy_run' = 2 /\ sy_A1' = sy_alice /\ sy_B1' = sy_bob
    /\ sy_a2b' = << >> /\ sy_b2a' = << >>
    /\ sy_a_closed' = FALSE /\ sy_b_closed' = FALSE
    /\ sy_alice_pc' = "init" /\ sy_bob_pc' = "loop"
    /\ sy_replica' = FALSE
    /\ UNCHANGED <<sy_alice, sy_bob, sy_bob_known, sy_A0, sy_B0, sy_injected>>

\* how many messages a peer that ignores the protocol may write
MaxInject == 1

\* the first identifier, with one entry
FirstEntry == EntryOf(RecordIdentifier(1), Record(1, 1))

\* messages a peer may write at any time: an Init over no entry or over one
\* entry, and a Sync that carries one entry
InjectedMessages ==
    {MsgInit(sync_initial_message(EmptyMap)),
     MsgInit(sync_initial_message(RecordsOf({FirstEntry}))),
     MsgSync(<<RangeItem(RangeOf(DefaultIdentifier, DefaultIdentifier),
                         store_all(RecordsOf({FirstEntry})), FALSE)>>)}

\* the peer of run_bob writes a message of its own choice
InjectToBob ==
    /\ sy_injected < MaxInject /\ sy_bob_pc = "loop" /\ ~sy_a_closed
    /\ \E m \in InjectedMessages : sy_a2b' = Append(sy_a2b, m)
    /\ sy_injected' = sy_injected + 1
    /\ UNCHANGED <<sy_alice, sy_bob, sy_bob_known, sy_b2a, sy_a_closed, sy_b_closed,
                   sy_alice_pc, sy_bob_pc, sy_replica, sy_A0, sy_B0,
                   sy_run, sy_A1, sy_B1>>

\* the peer of run_alice writes a message of its own choice
InjectToAlice ==
    /\ sy_injected < MaxInject /\ sy_alice_pc \in {"init", "loop"} /\ ~sy_b_closed
    /\ \E m \in InjectedMessages : sy_b2a' = Append(sy_b2a, m)
    /\ sy_injected' = sy_injected + 1
    /\ UNCHANGED <<sy_alice, sy_bob, sy_bob_known, sy_a2b, sy_a_closed, sy_b_closed,
                   sy_alice_pc, sy_bob_pc, sy_replica, sy_A0, sy_B0,
                   sy_run, sy_A1, sy_B1>>

(***************************************************************************)
(*            LIVE-SYNC ACTOR (iroh/src/sync/live.rs)                      *)
(* The actor owns the replicas it syncs, keyed by gossip topic.  Its run   *)
(* loop is a biased select: the control channel is polled first.           *)
(***************************************************************************)
Topics == {"t1", "t2"}

\* messages the handles may send in all
MaxLiveSend == 2

\* gossip events, notifications and task completions the model lets arrive
MaxLiveEvents == 1

\* enum ToActor
SyncDoc(topic, peers) == [tag |-> "SyncDoc", topic |-> topic, peers |-> peers]

Shutdown == [tag |-> "Shutdown", topic |-> "-", peers |-> {}]

\* what subscription.next() may yield: gossip events and an error of the stream
GossipKinds == {"Received", "NeighborUp", "NeighborDown", "StreamErr"}

VARIABLES
    lv_pc,            \* Actor::run: "run", "shutdown" (inside on_shutdown), "ok", "err"
    lv_inbox,         \* to_actor_rx: messages sent and not yet received
    lv_sent,          \* number of messages sent by the handles
    lv_handle,        \* a LiveSync handle (a sender of the channel) is alive
    lv_docs,          \* keys of docs
    lv_draining,      \* on_shutdown: topics the drain iterator has yet to yield
    lv_sync_state,    \* sync_state: <<topic, peer>> -> "Running", "Finished", "Failed"
    lv_pending_syncs, \* pending_syncs: the <<topic, peer>> of the running tasks
    lv_pending_joins, \* pending_joins: the topics of the running join tasks
    lv_insert_q,      \* insert_entry_rx: topics of the local inserts not yet received
    lv_broadcast,     \* history: topics a local insert was broadcast on
    lv_received,      \* history: topics whose replica was handed a remote entry
    lv_quit,          \* history: topics gossip.quit was called for
    lv_taken,         \* history: Shutdown (or None) was taken out of the channel
    lv_docs_at_take,  \* history: keys of docs when that happened
    lv_events,        \* number of events that arrived
    lv_after,         \* history: events processed after the shutdown was taken
    lv_callbacks,     \* per topic: the on_insert callbacks insert_doc registered on its replica
    lv_sending,       \* notifications the inserting thread is blocked on in insert_entry_tx.send
    lv_ninserts,      \* history: number of local inserts
    lv_nbroadcast,    \* history: number of gossip broadcasts
    lv_published,     \* history: the origins of the inserts that were broadcast
    lv_skipped        \* history: <<topic, peer>> sync_with_peer found a recorded state for

lvVars == <<lv_pc, lv_inbox, lv_sent, lv_handle, lv_docs, lv_draining, lv_sync_state,
            lv_pending_syncs, lv_pending_joins, lv_insert_q, lv_broadcast, lv_received,
            lv_quit, lv_taken, lv_docs_at_take, lv_events, lv_after,
            lv_callbacks, lv_sending, lv_ninserts, lv_nbroadcast, lv_published,
            lv_skipped>>

\* the variables of the insert notifications and of the sync bookkeeping history
lcVars == <<lv_callbacks, lv_sending, lv_ninserts, lv_nbroadcast, lv_published, lv_skipped>>

\* LiveSync::spawn
LvInit ==
    /\ lv_pc = "run" /\ lv_inbox = << >> /\ lv_sent = 0 /\ lv_handle = TRUE
    /\ lv_docs = {} /\ lv_draining = {}
    /\ lv_sync_state = EmptyMap /\ lv_pending_syncs = {} /\ lv_pending_joins = {}
    /\ lv_insert_q = << >> /\ lv_broadcast = {} /\ lv_received = {} /\ lv_quit = {}
    /\ lv_taken = FALSE /\ lv_docs_at_take = {}
    /\ lv_events = 0 /\ lv_after = 0
    /\ lv_callbacks = [t \in Topics |-> 0] /\ lv_sending = << >>
    /\ lv_ninserts = 0 /\ lv_nbroadcast = 0 /\ lv_published = {}
    /\ lv_skipped = {}

\* the sync bookkeeping of the actor, threaded through sync_with_peer
LvSync == [state |-> lv_sync_state, pending |-> lv_pending_syncs, skipped |-> lv_skipped]

\* mutant of sync_with_peer: the recorded state is not looked at
sync_with_peer_again(y, docs, topic, peer) ==
    IF topic \notin docs THEN y
    ELSE [state |-> MapPut(y.state, <<topic, peer>>, "Running"),
          pending |-> y.pending \cup {<<topic, peer>>},
          skipped |-> y.skipped]

\* Actor::sync_with_peer
sync_with_peer(y, docs, topic, peer) ==
    IF topic \notin docs THEN y
    ELSE IF <<topic, peer>> \in DOMAIN y.state
    THEN [y EXCEPT !.skipped = @ \cup {<<topic, peer>>}]
    ELSE [state |-> MapPut(y.state, <<topic, peer>>, "Running"),
          pending |-> y.pending \cup {<<topic, peer>>},
          skipped |-> y.skipped]

\* the last loop of Actor::insert_doc
RECURSIVE sync_with_peers(_, _, _, _)
sync_with_peers(y, docs, topic, peers) ==
    IF peers = {} THEN y
    ELSE LET peer == CHOOSE q \in peers : TRUE
         IN sync_with_peers(sync_with_peer(y, docs, topic, peer), docs, topic,
                            peers \ {peer})

\* flume::bounded(64): the capacity of the channel of insert notifications
InsertChannelCapacity == 64

\* enum InsertOrigin, without the peer of Remote
Origins == {"Local", "Remote"}

Notification(topic, origin) == [topic |-> topic, origin |-> origin]

\* mutant of on_insert_callback: the origin is not looked at
on_insert_callback_any_origin(origin, topic) == <<Notification(topic, origin)>>

\* the closure insert_doc registers with doc.on_insert: what it sends
on_insert_callback(origin, topic) ==
    IF origin = "Local" THEN <<Notification(topic, origin)>> ELSE << >>

\* the replica invokes every registered callback, in the order of registration
RECURSIVE invoke_callbacks(_, _, _)
invoke_callbacks(n, origin, topic) ==
    IF n = 0 THEN << >>
    ELSE on_insert_callback(origin, topic) \o invoke_callbacks(n - 1, origin, topic)

\* the actor and with it insert_entry_rx are dropped when run has returned
LvReceiverAlive == lv_pc \in {"run", "shutdown"}

\* flume::Sender::send on the bounded channel, for the notifications in
\* `sending`: they are queued while there is room; the sender blocks on the
\* rest; with the receiver dropped send returns an error at once
RECURSIVE bounded_send(_, _, _)
bounded_send(q, sending, alive) ==
    IF sending = << >> \/ ~alive THEN [q |-> q, sending |-> << >>]
    ELSE IF Len(q) >= InsertChannelCapacity THEN [q |-> q, sending |-> sending]
    ELSE bounded_send(Append(q, Head(sending)), Tail(sending), alive)

\* a replica runs its callbacks for an insert of the given origin, on the
\* thread that inserts
run_callbacks(q, topic, origin) ==
    bounded_send(q, invoke_callbacks(lv_callbacks[topic], origin, topic), LvReceiverAlive)

\* the branches after the control channel are reached only when it is not ready
LvOthersPolled == lv_pc = "run" /\ lv_inbox = << >> /\ lv_handle

\* the count of events processed after the shutdown was taken
LvCountAfter == lv_after' = IF lv_taken THEN lv_after + 1 ELSE lv_after

\* the initial peers a SyncDoc may name: none or every peer
InitialPeerLists == {{}, Peers}

\* LiveSync::add of one replica with its initial peers
add(topic, peers) ==
    /\ lv_handle /\ lv_sent < MaxLiveSend
    /\ lv_inbox' = Append(lv_inbox, SyncDoc(topic, peers))
    /\ lv_sent' = lv_sent + 1
    /\ UNCHANGED <<lv_pc, lv_handle, lv_docs, lv_draining, lv_sync_state, lv_pending_syncs,
                   lv_pending_joins, lv_insert_q, lv_broadcast, lv_received, lv_quit,
                   lv_taken, lv_docs_at_take, lv_events, lv_after>>
    /\ UNCHANGED lcVars

LvAdd == \E topic \in Topics, peers \in InitialPeerLists : add(topic, peers)

\* LiveSync::cancel
LvCancel ==
    /\ lv_handle /\ lv_sent < MaxLiveSend
    /\ lv_inbox' = Append(lv_inbox, Shutdown)
    /\ lv_sent' = lv_sent + 1
    /\ UNCHANGED <<lv_pc, lv_handle, lv_docs, lv_draining, lv_sync_state, lv_pending_syncs,
                   lv_pending_joins, lv_insert_q, lv_broadcast, lv_received, lv_quit,
                   lv_taken, lv_docs_at_take, lv_events, lv_after>>
    /\ UNCHANGED lcVars

\* the last LiveSync handle is dropped
LvDrop ==
    /\ lv_handle
    /\ lv_handle' = FALSE
    /\ UNCHANGED <<lv_pc, lv_inbox, lv_sent, lv_docs, lv_draining, lv_sync_state,
                   lv_pending_syncs, lv_pending_joins, lv_insert_q, lv_broadcast,
                   lv_received, lv_quit, lv_taken, lv_docs_at_take, lv_events, lv_after>>
    /\ UNCHANGED lcVars

\* run: to_actor_rx.recv() yields Some(Shutdown) or None; on_shutdown starts
\* to drain docs
LvTakeShutdown ==
    /\ lv_pc = "run"
    /\ IF lv_inbox # << >>
       THEN Head(lv_inbox).tag = "Shutdown" /\ lv_inbox' = Tail(lv_inbox)
       ELSE ~lv_handle /\ UNCHANGED lv_inbox
    /\ lv_pc' = "shutdown"
    /\ lv_taken' = TRUE /\ lv_docs_at_take' = lv_docs
    /\ lv_draining' = lv_docs /\ lv_docs' = {}
    /\ UNCHANGED <<lv_sent, lv_handle, lv_sync_state, lv_pending_syncs, lv_pending_joins,
                   lv_insert_q, lv_broadcast, lv_received, lv_quit, lv_events, lv_after>>
    /\ UNCHANGED lcVars

\* on_shutdown: one turn of the loop over the drained docs; gossip.quit
\* returns Ok or an error, which ends on_shutdown and run
LvQuit ==
    /\ lv_pc = "shutdown"
    /\ IF lv_draining = {}
       THEN lv_pc' = "ok" /\ UNCHANGED <<lv_draining, lv_quit>>
       ELSE \E topic \in lv_draining, quit_ok \in BOOLEAN :
               /\ lv_quit' = lv_quit \cup {topic}
               /\ IF quit_ok
                  THEN lv_draining' = lv_draining \ {topic} /\ UNCHANGED lv_pc
                  ELSE lv_pc' = "err" /\ lv_draining' = {}
    /\ UNCHANGED <<lv_inbox, lv_sent, lv_handle, lv_docs, lv_sync_state, lv_pending_syncs,
                   lv_pending_joins, lv_insert_q, lv_broadcast, lv_received, lv_taken,
                   lv_docs_at_take, lv_events, lv_after>>
    /\ lv_sending' = IF lv_pc' \in {"run", "shutdown"} THEN lv_sending ELSE << >>
    /\ UNCHANGED <<lv_callbacks, lv_ninserts, lv_nbroadcast, lv_published, lv_skipped>>

\* run: to_actor_rx.recv() yields Some(SyncDoc); insert_doc runs to its end,
\* or add_known_addrs fails in its first loop ("early") or in its second
\* loop ("late") and run returns the error
LvInsertDoc ==
    /\ lv_pc = "run" /\ lv_inbox # << >> /\ Head(lv_inbox).tag = "SyncDoc"
    /\ lv_inbox' = Tail(lv_inbox)
    /\ LET topic == Head(lv_inbox).topic
           peers == Head(lv_inbox).peers
           y == sync_with_peers(LvSync, lv_docs \cup {topic}, topic, peers)
       IN \E outcome \in (IF peers = {} THEN {"ok"} ELSE {"ok", "early", "late"}) :
            /\ lv_pc' = IF outcome = "ok" THEN "run" ELSE "err"
            /\ lv_pending_joins' =
                  IF outcome = "early" THEN lv_pending_joins
                  ELSE lv_pending_joins \cup {topic}
            /\ lv_docs' = IF outcome = "early" THEN lv_docs ELSE lv_docs \cup {topic}
            /\ lv_sync_state' = IF outcome = "ok" THEN y.state ELSE lv_sync_state
            /\ lv_pending_syncs' = IF outcome = "ok" THEN y.pending ELSE lv_pending_syncs
            /\ lv_skipped' = IF outcome = "ok" THEN y.skipped ELSE lv_skipped
            /\ lv_callbacks' = IF outcome = "early" THEN lv_callbacks
                               ELSE [lv_callbacks EXCEPT ![topic] = @ + 1]
            /\ lv_sending' = IF outcome = "ok" THEN lv_sending ELSE << >>
    /\ UNCHANGED <<lv_sent, lv_handle, lv_draining, lv_insert_q, lv_broadcast, lv_received,
                   lv_quit, lv_taken, lv_docs_at_take, lv_events, lv_after,
                   lv_ninserts, lv_nbroadcast, lv_published>>

\* run: subscription.next() yields an item; on_gossip_event
LvGossipEvent ==
    /\ LvOthersPolled /\ lv_events < MaxLiveEvents
    /\ lv_events' = lv_events + 1
    /\ LvCountAfter
    /\ \E topic \in Topics, kind \in GossipKinds, peer \in Peers :
         LET y == sync_with_peer(LvSync, lv_docs, topic, peer) IN
         /\ lv_pc' = IF kind = "StreamErr" THEN "err" ELSE "run"
         /\ lv_received' =
               IF kind = "Received" /\ topic \in lv_docs
               THEN lv_received \cup {topic} ELSE lv_received
         /\ lv_sync_state' = IF kind = "NeighborUp" THEN y.state ELSE lv_sync_state
         /\ lv_pending_syncs' = IF kind = "NeighborUp" THEN y.pending ELSE lv_pending_syncs
         /\ lv_skipped' = IF kind = "NeighborUp" THEN y.skipped ELSE lv_skipped
         /\ IF kind = "Received" /\ topic \in lv_docs
            THEN \* doc.insert_remote_entry runs the callbacks of the replica
                 /\ lv_insert_q' = run_callbacks(lv_insert_q, topic, "Remote").q
                 /\ lv_sending' = run_callbacks(lv_insert_q, topic, "Remote").sending
            ELSE /\ lv_insert_q' = lv_insert_q
                 /\ lv_sending' = IF kind = "StreamErr" THEN << >> ELSE lv_sending
    /\ UNCHANGED <<lv_inbox, lv_sent, lv_handle, lv_docs, lv_draining, lv_pending_joins,
                   lv_broadcast, lv_quit, lv_taken, lv_docs_at_take,
                   lv_callbacks, lv_ninserts, lv_nbroadcast, lv_published>>

\* a thread that is not blocked in a callback inserts an entry into a
\* replica added by insert_doc; the replica runs its on_insert callbacks
LocalInsert(topic) ==
    /\ lv_sending = << >>
    /\ topic \in lv_docs \cup lv_docs_at_take
    /\ lv_insert_q' = run_callbacks(lv_insert_q, topic, "Local").q
    /\ lv_sending' = run_callbacks(lv_insert_q, topic, "Local").sending
    /\ lv_ninserts' = lv_ninserts + 1
    /\ UNCHANGED <<lv_pc, lv_inbox, lv_sent, lv_handle, lv_docs, lv_draining, lv_sync_state,
                   lv_pending_syncs, lv_pending_joins, lv_broadcast, lv_received, lv_quit,
                   lv_taken, lv_docs_at_take, lv_after,
                   lv_callbacks, lv_nbroadcast, lv_published, lv_skipped>>

\* a local insert into any replica the actor was given
LvLocalInsert ==
    /\ lv_events < MaxLiveEvents
    /\ lv_events' = lv_events + 1
    /\ \E topic \in Topics : LocalInsert(topic)

\* run: insert_entry_rx.recv_async() yields an entry; on_insert_entry
\* broadcasts it, or gossip.broadcast fails and run returns the error
LvInsertEntry ==
    /\ LvOthersPolled /\ lv_insert_q # << >>
    /\ LvCountAfter
    /\ \E broadcast_ok \in BOOLEAN :
          IF broadcast_ok
          THEN \* a blocked sender goes on when the entry is taken out
               /\ lv_insert_q' = bounded_send(Tail(lv_insert_q), lv_sending, TRUE).q
               /\ lv_sending' = bounded_send(Tail(lv_insert_q), lv_sending, TRUE).sending
               /\ lv_broadcast' = lv_broadcast \cup {Head(lv_insert_q).topic}
               /\ lv_nbroadcast' = lv_nbroadcast + 1
               /\ lv_published' = lv_published \cup {Head(lv_insert_q).origin}
               /\ UNCHANGED lv_pc
          ELSE /\ lv_pc' = "err"
               /\ lv_insert_q' = Tail(lv_insert_q)
               /\ lv_sending' = << >>
               /\ UNCHANGED <<lv_broadcast, lv_nbroadcast, lv_published>>
    /\ UNCHANGED <<lv_inbox, lv_sent, lv_handle, lv_docs, lv_draining, lv_sync_state,
                   lv_pending_syncs, lv_pending_joins, lv_received, lv_quit, lv_taken,
                   lv_docs_at_take, lv_events, lv_callbacks, lv_ninserts, lv_skipped>>

\* run: pending_syncs.next() yields a finished task; on_sync_finished
LvSyncFinished ==
    /\ LvOthersPolled
    /\ LvCountAfter
    /\ \E task \in lv_pending_syncs, state \in {"Finished", "Failed"},
          got_entries \in BOOLEAN :
          /\ lv_pending_syncs' = lv_pending_syncs \ {task}
          /\ lv_sync_state' = MapPut(lv_sync_state, task, state)
          /\ IF got_entries
             THEN \* connect_and_sync inserted entries of the peer into the replica
                  /\ lv_received' = lv_received \cup {task[1]}
                  /\ lv_insert_q' = run_callbacks(lv_insert_q, task[1], "Remote").q
                  /\ lv_sending' = run_callbacks(lv_insert_q, task[1], "Remote").sending
             ELSE UNCHANGED <<lv_received, lv_insert_q, lv_sending>>
    /\ UNCHANGED <<lv_pc, lv_inbox, lv_sent, lv_handle, lv_docs, lv_draining,
                   lv_pending_joins, lv_broadcast, lv_quit,
                   lv_taken, lv_docs_at_take, lv_events,
                   lv_callbacks, lv_ninserts, lv_nbroadcast, lv_published, lv_skipped>>

\* run: pending_joins.next() yields a finished join; an error is logged
LvJoinFinished ==
    /\ LvOthersPolled
    /\ \E topic \in lv_pending_joins : lv_pending_joins' = lv_pending_joins \ {topic}
    /\ UNCHANGED <<lv_pc, lv_inbox, lv_sent, lv_handle, lv_docs, lv_draining, lv_sync_state,
                   lv_pending_syncs, lv_insert_q, lv_broadcast, lv_received, lv_quit,
                   lv_taken, lv_docs_at_take, lv_events, lv_after>>
    /\ UNCHANGED lcVars

(***************************************************************************)
(*     THE LOCK OF THE REPLICA STORE (iroh-sync/src/store/memory.rs)       *)
(* replica_records is one parking_lot RwLock shared by every clone of the  *)
(* store.  with_records takes a read guard for one call,                   *)
(* with_records_mut(_with_default) a write guard for one call, and         *)
(* records_iter puts a read guard into the iterator it returns, which      *)
(* holds it until the iterator is dropped.  A read is not granted while a  *)
(* writer holds the lock or waits for it; a write is granted when no guard *)
(* is held.                                                                *)
(***************************************************************************)
\* threads that use clones of one store
NumThreads == 3

Threads == 1..NumThreads

\* no thread holds the write guard
NoThread == 0

\* the store operations by the guard they take: get (also len, get_first)
\* reads inside with_records; put (also remove) writes inside
\* with_records_mut_with_default; get_range (also all) returns an iterator
StoreOps == {"get", "put", "get_range"}

VARIABLES
    lk_pc,      \* per thread: "run", or the operation it is blocked in or inside of
    lk_guards,  \* per thread: the read guards it holds
    lk_iters,   \* per thread: the live range iterators it holds
    lk_writer   \* the thread that holds the write guard, or NoThread

lkVars == <<lk_pc, lk_guards, lk_iters, lk_writer>>

LkInit ==
    /\ lk_pc = [t \in Threads |-> "run"]
    /\ lk_guards = [t \in Threads |-> 0]
    /\ lk_iters = [t \in Threads |-> 0]
    /\ lk_writer = NoThread

\* the read guards held by all threads
RECURSIVE SumGuards(_, _)
SumGuards(guards, ts) ==
    IF ts = {} THEN 0
    ELSE LET t == CHOOSE x \in ts : TRUE
         IN guards[t] + SumGuards(guards, ts \ {t})

\* a thread has called RwLock::write and was not granted the lock yet
WriterWaiting == \E t \in Threads : lk_pc[t] = "lock_put"

\* RwLock::read : granted when no writer holds the lock or waits for it
read_granted(writer, waiting) == writer = NoThread /\ ~waiting

\* RwLock::write : granted when no guard is held
write_granted(writer, guards) == writer = NoThread /\ guards = 0

\* a thread calls a store operation; it may hold a live iterator (one at most)
LkCall(t) ==
    /\ lk_pc[t] = "run"
    /\ \E op \in StoreOps :
         /\ op = "get_range" => lk_iters[t] = 0
         /\ lk_pc' = [lk_pc EXCEPT ![t] = "lock_" \o op]
    /\ UNCHANGED <<lk_guards, lk_iters, lk_writer>>

\* the lock is granted to the thread: with_records / records_iter get the
\* read guard, with_records_mut_with_default the write guard; get_range
\* returns with the guard inside the iterator
LkLock(t) ==
    \/ /\ lk_pc[t] = "lock_get"
       /\ read_granted(lk_writer, WriterWaiting)
       /\ lk_guards' = [lk_guards EXCEPT ![t] = @ + 1]
       /\ lk_pc' = [lk_pc EXCEPT ![t] = "in_get"]
       /\ UNCHANGED <<lk_iters, lk_writer>>
    \/ /\ lk_pc[t] = "lock_get_range"
       /\ read_granted(lk_writer, WriterWaiting)
       /\ lk_guards' = [lk_guards EXCEPT ![t] = @ + 1]
       /\ lk_iters' = [lk_iters EXCEPT ![t] = @ + 1]
       /\ lk_pc' = [lk_pc EXCEPT ![t] = "run"]
       /\ UNCHANGED lk_writer
    \/ /\ lk_pc[t] = "lock_put"
       /\ write_granted(lk_writer, SumGuards(lk_guards, Threads))
       /\ lk_writer' = t
       /\ lk_pc' = [lk_pc EXCEPT ![t] = "in_put"]
       /\ UNCHANGED <<lk_guards, lk_iters>>

\* the closure of with_records / with_records_mut_with_default returns and
\* the guard is dropped
LkReturn(t) ==
    \/ /\ lk_pc[t] = "in_get"
       /\ lk_guards' = [lk_guards EXCEPT ![t] = @ - 1]
       /\ lk_pc' = [lk_pc EXCEPT ![t] = "run"]
       /\ UNCHANGED <<lk_iters, lk_writer>>
    \/ /\ lk_pc[t] = "in_put"
       /\ lk_writer' = NoThread
       /\ lk_pc' = [lk_pc EXCEPT ![t] = "run"]
       /\ UNCHANGED <<lk_guards, lk_iters>>

\* the thread drops its range iterator and with it the read guard
LkDropIter(t) ==
    /\ lk_pc[t] = "run"
    /\ lk_iters[t] > 0
    /\ lk_iters' = [lk_iters EXCEPT ![t] = @ - 1]
    /\ lk_guards' = [lk_guards EXCEPT ![t] = @ - 1]
    /\ UNCHANGED <<lk_pc, lk_writer>>

vars == <<dlVars, pvVars, puVars, stVars, syVars, lvVars, lkVars>>

\* the download actor alone; no stream reaches the provider
PvIdle ==
    /\ PvStart
    /\ pv_db = {}

InitDownload ==
    /\ DlInit
    /\ PvIdle
    /\ PuIdle
    /\ StInit
    /\ SyIdle
    /\ LvInit
    /\ LkInit

NextDownload ==
    \/ Push /\ UNCHANGED <<pvVars, puVars, stVars, syVars, lvVars, lkVars>>
    \/ OnDownloadRequest /\ UNCHANGED <<pvVars, puVars, stVars, syVars, lvVars, lkVars>>
    \/ DialOk /\ UNCHANGED <<pvVars, puVars, stVars, syVars, lvVars, lkVars>>
    \/ DialErr /\ UNCHANGED <<pvVars, puVars, stVars, syVars, lvVars, lkVars>>
    \/ DownloadSome /\ UNCHANGED <<pvVars, puVars, stVars, syVars, lvVars, lkVars>>
    \/ DownloadNone /\ UNCHANGED <<pvVars, puVars, stVars, syVars, lvVars, lkVars>>
    \/ DownloadErr /\ UNCHANGED <<pvVars, puVars, stVars, syVars, lvVars, lkVars>>

SpecDownload == InitDownload /\ [][NextDownload]_vars

\* the download actor together with callers of Downloader::finished
NextDownloader ==
    \/ Push /\ UNCHANGED <<pvVars, puVars, stVars, syVars, lvVars, lkVars>>
    \/ OnDownloadRequest /\ UNCHANGED <<pvVars, puVars, stVars, syVars, lvVars, lkVars>>
    \/ DialOk /\ UNCHANGED <<pvVars, puVars, stVars, syVars, lvVars, lkVars>>
    \/ DialErr /\ UNCHANGED <<pvVars, puVars, stVars, syVars, lvVars, lkVars>>
    \/ DownloadSome /\ UNCHANGED <<pvVars, puVars, stVars, syVars, lvVars, lkVars>>
    \/ DownloadNone /\ UNCHANGED <<pvVars, puVars, stVars, syVars, lvVars, lkVars>>
    \/ DownloadErr /\ UNCHANGED <<pvVars, puVars, stVars, syVars, lvVars, lkVars>>
    \/ Finished /\ UNCHANGED <<pvVars, puVars, stVars, syVars, lvVars, lkVars>>

SpecDownloader == InitDownload /\ [][NextDownloader]_vars

\* the provider serving one stream; the download actor stays idle
InitProvider ==
    /\ PvInit
    /\ DlInit
    /\ PuIdle
    /\ StInit
    /\ SyIdle
    /\ LvInit
    /\ LkInit

NextProvider ==
    \/ ReadRequest /\ UNCHANGED <<dlVars, puVars, stVars, syVars, lvVars, lkVars>>
    \/ Authorize /\ UNCHANGED <<dlVars, puVars, stVars, syVars, lvVars, lkVars>>
    \/ HandleCustomGet /\ UNCHANGED <<dlVars, puVars, stVars, syVars, lvVars, lkVars>>
    \/ HandleGet /\ UNCHANGED <<dlVars, puVars, stVars, syVars, lvVars, lkVars>>
    \/ TransferStart /\ UNCHANGED <<dlVars, puVars, stVars, syVars, lvVars, lkVars>>
    \/ TransferOffset /\ UNCHANGED <<dlVars, puVars, stVars, syVars, lvVars, lkVars>>
    \/ TransferFinish /\ UNCHANGED <<dlVars, puVars, stVars, syVars, lvVars, lkVars>>

SpecProvider == InitProvider /\ [][NextProvider]_vars

\* one Purpose is displayed and parsed back
InitPurpose ==
    /\ PuInit
    /\ DlInit
    /\ PvIdle
    /\ StInit
    /\ SyIdle
    /\ LvInit
    /\ LkInit

NextPurpose ==
    \/ Display /\ UNCHANGED <<dlVars, pvVars, stVars, syVars, lvVars, lkVars>>
    \/ Parse /\ UNCHANGED <<dlVars, pvVars, stVars, syVars, lvVars, lkVars>>

SpecPurpose == InitPurpose /\ [][NextPurpose]_vars

\* puts and removes on one replica store
InitStore ==
    /\ StInit
    /\ DlInit
    /\ PvIdle
    /\ PuIdle
    /\ SyIdle
    /\ LvInit
    /\ LkInit

NextStore ==
    \/ Put /\ UNCHANGED <<dlVars, pvVars, puVars, syVars, lvVars, lkVars>>
    \/ Remove /\ UNCHANGED <<dlVars, pvVars, puVars, syVars, lvVars, lkVars>>

SpecStore == InitStore /\ [][NextStore]_vars

\* one run of run_alice against run_bob
InitSync ==
    /\ SyInit
    /\ DlInit
    /\ PvIdle
    /\ PuIdle
    /\ StInit
    /\ LvInit
    /\ LkInit

NextSync ==
    \/ AliceInit /\ UNCHANGED <<dlVars, pvVars, puVars, stVars, lvVars, lkVars>>
    \/ AliceRead /\ UNCHANGED <<dlVars, pvVars, puVars, stVars, lvVars, lkVars>>
    \/ AliceEof /\ UNCHANGED <<dlVars, pvVars, puVars, stVars, lvVars, lkVars>>
    \/ BobRead /\ UNCHANGED <<dlVars, pvVars, puVars, stVars, lvVars, lkVars>>
    \/ BobEof /\ UNCHANGED <<dlVars, pvVars, puVars, stVars, lvVars, lkVars>>

SpecSync == InitSync /\ [][NextSync]_vars

\* run_bob takes the message at the head of its stream
BobTakes == sy_bob_pc = "loop" /\ sy_a2b # << >> /\ sy_a2b' = Tail(sy_a2b)

\* run_alice takes the message at the head of its stream
AliceTakes == sy_alice_pc = "loop" /\ sy_b2a # << >> /\ sy_b2a' = Tail(sy_b2a)

\* the tasks of both sides are polled: a side that can take its next step
\* takes it; the steps of AliceRead and BobRead are the steps that take a
\* message from the stream
SyncFairness ==
    /\ WF_syVars(AliceInit)
    /\ WF_sy_b2a(AliceTakes)
    /\ WF_syVars(AliceEof)
    /\ WF_sy_a2b(BobTakes)
    /\ WF_syVars(BobEof)

SpecSyncFair == InitSync /\ [][NextSync]_vars /\ SyncFairness

\* one run of run_alice against run_bob and, when both returned Ok, a second
\* run of the same replicas
NextResync ==
    \/ AliceInit /\ UNCHANGED <<dlVars, pvVars, puVars, stVars, lvVars, lkVars>>
    \/ AliceRead /\ UNCHANGED <<dlVars, pvVars, puVars, stVars, lvVars, lkVars>>
    \/ AliceEof /\ UNCHANGED <<dlVars, pvVars, puVars, stVars, lvVars, lkVars>>
    \/ BobRead /\ UNCHANGED <<dlVars, pvVars, puVars, stVars, lvVars, lkVars>>
    \/ BobEof /\ UNCHANGED <<dlVars, pvVars, puVars, stVars, lvVars, lkVars>>
    \/ Restart /\ UNCHANGED <<dlVars, pvVars, puVars, stVars, lvVars, lkVars>>

SpecResync == InitSync /\ [][NextResync]_vars

\* run_alice and run_bob, each with a peer that may write out of order
InitSyncStream ==
    /\ \E A \in StreamEntrySets : sy_alice = RecordsOf(A)
    /\ \E B \in StreamEntrySets : sy_bob = RecordsOf(B)
    /\ sy_bob_known \in BOOLEAN
    /\ SyStart
    /\ DlInit
    /\ PvIdle
    /\ PuIdle
    /\ StInit
    /\ LvInit
    /\ LkInit

NextSyncStream ==
    \/ AliceInit /\ UNCHANGED <<dlVars, pvVars, puVars, stVars, lvVars, lkVars>>
    \/ AliceRead /\ UNCHANGED <<dlVars, pvVars, puVars, stVars, lvVars, lkVars>>
    \/ AliceEof /\ UNCHANGED <<dlVars, pvVars, puVars, stVars, lvVars, lkVars>>
    \/ BobRead /\ UNCHANGED <<dlVars, pvVars, puVars, stVars, lvVars, lkVars>>
    \/ BobEof /\ UNCHANGED <<dlVars, pvVars, puVars, stVars, lvVars, lkVars>>
    \/ InjectToBob /\ UNCHANGED <<dlVars, pvVars, puVars, stVars, lvVars, lkVars>>
    \/ InjectToAlice /\ UNCHANGED <<dlVars, pvVars, puVars, stVars, lvVars, lkVars>>

SpecSyncStream == InitSyncStream /\ [][NextSyncStream]_vars

\* the live-sync actor with its handles, the gossip subscription, the local
\* inserts and the sync and join tasks
InitLive ==
    /\ LvInit
    /\ DlInit
    /\ PvIdle
    /\ PuIdle
    /\ StInit
    /\ SyIdle
    /\ LkInit

NextLive ==
    \/ LvAdd /\ UNCHANGED <<dlVars, pvVars, puVars, stVars, syVars, lkVars>>
    \/ LvCancel /\ UNCHANGED <<dlVars, pvVars, puVars, stVars, syVars, lkVars>>
    \/ LvDrop /\ UNCHANGED <<dlVars, pvVars, puVars, stVars, syVars, lkVars>>
    \/ LvTakeShutdown /\ UNCHANGED <<dlVars, pvVars, puVars, stVars, syVars, lkVars>>
    \/ LvQuit /\ UNCHANGED <<dlVars, pvVars, puVars, stVars, syVars, lkVars>>
    \/ LvInsertDoc /\ UNCHANGED <<dlVars, pvVars, puVars, stVars, syVars, lkVars>>
    \/ LvGossipEvent /\ UNCHANGED <<dlVars, pvVars, puVars, stVars, syVars, lkVars>>
    \/ LvLocalInsert /\ UNCHANGED <<dlVars, pvVars, puVars, stVars, syVars, lkVars>>
    \/ LvInsertEntry /\ UNCHANGED <<dlVars, pvVars, puVars, stVars, syVars, lkVars>>
    \/ LvSyncFinished /\ UNCHANGED <<dlVars, pvVars, puVars, stVars, syVars, lkVars>>
    \/ LvJoinFinished /\ UNCHANGED <<dlVars, pvVars, puVars, stVars, syVars, lkVars>>

SpecLive == InitLive /\ [][NextLive]_vars

\* the live-sync actor while it runs: no handle asks it to shut down
NextLiveRun ==
    \/ LvAdd /\ UNCHANGED <<dlVars, pvVars, puVars, stVars, syVars, lkVars>>
    \/ LvInsertDoc /\ UNCHANGED <<dlVars, pvVars, puVars, stVars, syVars, lkVars>>
    \/ LvGossipEvent /\ UNCHANGED <<dlVars, pvVars, puVars, stVars, syVars, lkVars>>
    \/ LvLocalInsert /\ UNCHANGED <<dlVars, pvVars, puVars, stVars, syVars, lkVars>>
    \/ LvInsertEntry /\ UNCHANGED <<dlVars, pvVars, puVars, stVars, syVars, lkVars>>
    \/ LvSyncFinished /\ UNCHANGED <<dlVars, pvVars, puVars, stVars, syVars, lkVars>>
    \/ LvJoinFinished /\ UNCHANGED <<dlVars, pvVars, puVars, stVars, syVars, lkVars>>

SpecLiveRun == InitLive /\ [][NextLiveRun]_vars

\* one replica without peers, added up to MaxLiveSend times, and a thread that
\* inserts into it until the channel of the notifications has been filled
FilledTopic == CHOOSE t \in Topics : TRUE

LvAddFilled == add(FilledTopic, {})

LvInsertFilled ==
    /\ lv_ninserts <= InsertChannelCapacity
    /\ LocalInsert(FilledTopic)
    /\ UNCHANGED lv_events

NextLiveInsert ==
    \/ LvAddFilled /\ UNCHANGED <<dlVars, pvVars, puVars, stVars, syVars, lkVars>>
    \/ LvInsertDoc /\ UNCHANGED <<dlVars, pvVars, puVars, stVars, syVars, lkVars>>
    \/ LvInsertFilled /\ UNCHANGED <<dlVars, pvVars, puVars, stVars, syVars, lkVars>>
    \/ LvInsertEntry /\ UNCHANGED <<dlVars, pvVars, puVars, stVars, syVars, lkVars>>
    \/ LvJoinFinished /\ UNCHANGED <<dlVars, pvVars, puVars, stVars, syVars, lkVars>>

SpecLiveInsert == InitLive /\ [][NextLiveInsert]_vars

\* threads calling into clones of one replica store
InitLock ==
    /\ LkInit
    /\ DlInit
    /\ PvIdle
    /\ PuIdle
    /\ StInit
    /\ SyIdle
    /\ LvInit

NextLock ==
    \/ \E t \in Threads : LkCall(t) /\ UNCHANGED <<dlVars, pvVars, puVars, stVars, syVars, lvVars>>
    \/ \E t \in Threads : LkLock(t) /\ UNCHANGED <<dlVars, pvVars, puVars, stVars, syVars, lvVars>>
    \/ \E t \in Threads : LkReturn(t) /\ UNCHANGED <<dlVars, pvVars, puVars, stVars, syVars, lvVars>>
    \/ \E t \in Threads : LkDropIter(t) /\ UNCHANGED <<dlVars, pvVars, puVars, stVars, syVars, lvVars>>

SpecLock == InitLock /\ [][NextLock]_vars

\* no request is in the channel, no dial is pending and no download is in flight
DlQuiescent == rx = << >> /\ dialing = {} /\ pending_download_futs = {}

\* C1: every waiter registered by push is eventually answered, given that every
\* queued dial and every started download completes.  Stated on the states
\* in which nothing is left to complete (no request in the channel, no dial
\* pending, no download in flight): there no waiter is still pending.
C1_EveryWaiterAnswered ==
    DlQuiescent => \A i \in 1..npush : reply_rx[i].tag # "Pending"

\* C2: H pushed (once) with peers [P1, P2], both dials succeeded, P1 answered
\* not-found for H, nothing failed and P2 never refused H; once nothing is
\* left to complete the waiter holds Some((H, size)).
C2_SecondPeerDelivers ==
    \A h \in Hashes, p1 \in Peers, p2 \in Peers :
        ( /\ p1 # p2
          /\ pushed = <<[hash |-> h, peers |-> <<p1, p2>>]>>
          /\ DlQuiescent
          /\ failed_peers = {}
          /\ <<p1, h>> \in not_found_by
          /\ <<p2, h>> \notin not_found_by )
        => reply_rx[1] = ReplySome(h, BlobSize(h))

(***************************************************************************)
(*                     Provider claims                                     *)
(***************************************************************************)
PvHas(kinds) == CountOf(pv_log, kinds) > 0

\* C3: by the time the stream handler has returned, a request for which
\* GetRequestReceived or CustomGetRequestReceived was emitted has exactly one
\* terminal event (TransferCollectionCompleted or TransferAborted).
C3_OneTerminalPerRequest ==
    (pv_pc = "done" /\ PvHas(RequestEvents)) => CountOf(pv_log, TerminalEvents) = 1

\* the position in the log of the lookup of a requested child that is absent
MissingChildAt(n) ==
    /\ n \in DOMAIN pv_log
    /\ pv_log[n].k = "db_get"
    /\ pv_log[n].i >= 1
    /\ pv_log[n].h \notin pv_db

\* C5: when a requested child is absent from the blob map (and no read or
\* write on the stream failed): the requested ranges of the root and of every
\* earlier requested child were written before the lookup, nothing is written
\* and no TransferBlobCompleted is emitted after it, the stream is finished,
\* transfer_collection returned NotFound, exactly one terminal event, a
\* TransferAborted, was emitted and the handler returned Ok.
C5_MissingChild ==
    \A n \in DOMAIN pv_log :
        (pv_pc = "done" /\ MissingChildAt(n) /\ ~pv_iofail) =>
            /\ \A j \in pv_req :
                  j < pv_log[n].i =>
                    \E m \in 1..(n - 1) :
                        pv_log[m] = Entry("write_blob",
                                          IF j = 0 THEN Root ELSE Collection[j], j)
            /\ \A m \in DOMAIN pv_log :
                  m > n => pv_log[m].k \notin WriteKinds \cup {"TransferBlobCompleted"}
            /\ \A m \in DOMAIN pv_log :
                  pv_log[m].k \in WriteKinds \cup {"TransferBlobCompleted"}
                     => pv_log[m].h # pv_log[n].h
            /\ \E m \in DOMAIN pv_log : m > n /\ pv_log[m].k = "finish"
            /\ pv_tc = "NotFound"
            /\ CountOf(pv_log, {"TransferAborted"}) = 1
            /\ CountOf(pv_log, {"TransferCollectionCompleted"}) = 0
            /\ pv_result = "Ok"

\* C5 witness: the third child is missing; root and first child were sent
C5_Witness ==
    /\ pv_pc = "done"
    /\ ~pv_iofail
    /\ pv_req = {0, 1, 3}
    /\ pv_db = {Root, "c1", "c2"}
    /\ pv_tc = "NotFound"

\* C6: a request frame followed by further client bytes is rejected: the
\* handler returns an error, emits exactly one TransferAborted and nothing
\* else; the authorization handler and the blob map are not consulted and
\* nothing is written.
C6_ExtraBytesRejected ==
    (pv_stream.frame \in {"Get", "CustomGet"} /\ pv_stream.extra) =>
        /\ pv_pc = "done"
        /\ pv_result = "Err"
        /\ CountOf(pv_log, {"TransferAborted"}) = 1
        /\ ~PvHas(RequestEvents)
        /\ ~PvHas({"authorize", "custom_handle", "db_get", "parse"})
        /\ ~PvHas(WriteKinds)
        /\ Len(pv_log) = 1

\* C6 witness: a valid Get followed by an extra byte, read without error
C6_Witness ==
    /\ pv_pc = "done"
    /\ pv_stream = [frame |-> "Get", extra |-> TRUE]
    /\ ~pv_iofail

AuthorizationFailed ==
    \E n \in DOMAIN pv_log : pv_log[n] = Entry("authorize", "-", 0)

C8_PurposeRoundTrip ==
    pu_pc = "parsed" => pu_parsed = pu_purpose

\* C11: a future returned by finished(hash) completes only once the blob was
\* downloaded or all requests pushed for the hash have failed: whenever a poll
\* of such a future returns Ready, no request pushed for the hash is still
\* without an answer.
C11_FinishedOnlyWhenAnswered ==
    finished_obs.tag = "Ready" => ~finished_obs.unanswered

\* C12: the actor answers a waiter with None only when every peer offered as
\* candidate in the waiter's request has answered not-found for the hash or
\* has failed, none of them is still queued in candidates_by_hash for the hash,
\* and a download of the hash in flight after the answer is a repeated one,
\* from a peer that has already answered not-found for the hash.
C12_NoneOnlyAfterAllTried ==
    [][\A i \in 1..npush :
          (reply_rx[i].tag = "Pending" /\ reply_rx'[i].tag = "None") =>
              /\ \A p \in SeqRange(pushed[i].peers) :
                    /\ p \in failed_peers' \/ <<p, pushed[i].hash>> \in not_found_by'
                    /\ <<p, pushed[i].hash>> \in pending_download_futs' =>
                           <<p, pushed[i].hash>> \in not_found_by'
              /\ pushed[i].hash \in DOMAIN queue'.candidates_by_hash =>
                    queue'.candidates_by_hash[pushed[i].hash] = << >>]_vars

\* C12 witness: a waiter that offered two peers holds None, one of the peers
\* answered not-found and the other one failed
C12_Witness ==
    \E i \in 1..npush, p1 \in Peers, p2 \in Peers :
        /\ reply_rx[i].tag = "None"
        /\ pushed[i].peers = <<p1, p2>>
        /\ <<p1, pushed[i].hash>> \in not_found_by /\ p1 \notin failed_peers
        /\ p2 \in failed_peers /\ <<p2, pushed[i].hash>> \notin not_found_by

\* C13: when the actor handles a request whose blob is already in the local
\* database, the waiter is answered at once with Some((hash, size)) and
\* replies, the candidate and running maps of the queue, the connections and
\* the pending dials are left as they were.
C13_PresentBlobAnsweredAtOnce ==
    [][(rx # << >> /\ rx' = Tail(rx) /\ Head(rx).hash \in db) =>
          /\ reply_rx'[Head(rx).reply] = ReplySome(Head(rx).hash, BlobSize(Head(rx).hash))
          /\ UNCHANGED <<replies, queue, conns, dialing, pending_download_futs>>]_vars

\* C13 witness: h1 was downloaded from p1; the second request, for h1 from
\* p2, holds Some although p2 was never dialed nor queued
C13_Witness ==
    /\ pushed = <<[hash |-> "h1", peers |-> <<"p1">>], [hash |-> "h1", peers |-> <<"p2">>]>>
    /\ rx = << >>
    /\ reply_rx[2] = ReplySome("h1", BlobSize("h1"))
    /\ "p2" \notin dialing \cup conns \cup failed_peers
    /\ "p2" \notin DOMAIN queue.candidates_by_peer
    /\ \A h \in Hashes : <<"p2", h>> \notin not_found_by \cup pending_download_futs

\* what handle_get can do with the request, as pairs of the log it leaves and
\* the result it returns; the three operators follow transfer_collection's
\* loop, transfer_collection and handle_get
RECURSIVE transfer_loop_outcomes(_, _, _, _, _)
transfer_loop_outcomes(blob_map, rest, prev, cursor, log) ==
    IF rest = << >>
    THEN {[log |-> Append(log, Ev("finish")), status |-> "Sent"],
          [log |-> log, status |-> "Err"]}
    ELSE
      LET offset == Head(rest)
          skipped == cursor_after_skip(prev, offset, cursor)
      IN
      IF offset = 0
      THEN {[log |-> Append(log, Entry("write_partial", Root, 0)), status |-> "Err"]}
             \cup transfer_loop_outcomes(blob_map, Tail(rest), prev, cursor,
                                         Append(log, Entry("write_blob", Root, 0)))
      ELSE {[log |-> log, status |-> "Err"]} \cup
           IF skipped >= Len(Collection)
           THEN {[log |-> Append(log, Ev("finish")), status |-> "Sent"]}
           ELSE
             LET hash == Collection[skipped + 1]
                 log1 == Append(log, Entry("db_get", hash, offset))
             IN IF send_blob_status(blob_map, hash) = "NotFound"
                THEN {[log |-> Append(log1, Ev("finish")), status |-> "NotFound"],
                      [log |-> log1, status |-> "Err"]}
                ELSE {[log |-> Append(log1, Entry("write_partial", hash, offset)),
                       status |-> "Err"]}
                       \cup transfer_loop_outcomes(
                              blob_map, Tail(rest), offset, skipped + 1,
                              Append(Append(log1, Entry("write_blob", hash, offset)),
                                     Entry("TransferBlobCompleted", hash, offset - 1)))

transfer_collection_outcomes(blob_map, ranges, log) ==
    IF just_root(ranges)
    THEN transfer_loop_outcomes(blob_map, iter_non_empty(ranges), 0, 0, log)
    ELSE {[log |-> Append(log, Ev("parse")), status |-> "Err"]}
           \cup transfer_loop_outcomes(
                  blob_map, iter_non_empty(ranges), 0, 0,
                  Append(Append(log, Ev("parse")), Ev("TransferCollectionStarted")))

handle_get_outcomes(blob_map, ranges, log) ==
    LET log1 == Append(Append(log, Ev("GetRequestReceived")), Entry("db_get", Root, 0))
    IN IF Root \in blob_map
       THEN {[log |-> log1, result |-> "Err"]} \cup
            {[log |-> end_transfer(r.log, r.status),
              result |-> IF r.status = "Err" THEN "Err" ELSE "Ok"]
               : r \in transfer_collection_outcomes(blob_map, ranges, log1)}
       ELSE {[log |-> Append(notify_transfer_aborted(log1), Ev("finish")), result |-> "Ok"],
             [log |-> notify_transfer_aborted(log1), result |-> "Err"]}

\* the position of the first entry of the log with one of the kinds, 0 if none
FirstOf(log, kinds) ==
    IF \E n \in DOMAIN log : log[n].k \in kinds
    THEN Min({n \in DOMAIN log : log[n].k \in kinds})
    ELSE 0

\* the only non-empty range of the request is at offset 0
RootOnly(ranges) == ranges = {0}

\* the request has a non-empty range at offset 0 and at some child
RootAndChildren(ranges) == 0 \in ranges /\ ranges # {0}

\* C28: for a request that is not root-only and asks for ranges of the root,
\* the root's ranges are written before the root is parsed as a collection.
C28_RootWrittenBeforeParse ==
    RootAndChildren(pv_req) =>
        \A n \in DOMAIN pv_log :
            pv_log[n].k = "parse" =>
                \E m \in 1..(n - 1) : pv_log[m] = Entry("write_blob", Root, 0)

\* transfer_collection was entered and has returned
TransferReturned == pv_pc = "done" /\ pv_tc # "none"

CustomPrefix == SubSeq(pv_log, 1, FirstOf(pv_log, {"write_get"}))

\* C30: for a CustomGet whose handler returns a Get, the serialized Get is
\* the first thing written to the stream, and what follows (events, bytes
\* written, result) is what handle_get does with that Get received directly.
C30_CustomGetIsGetAfterReply ==
    (pv_pc = "done" /\ pv_stream.frame = "CustomGet" /\ PvHas({"CustomGetRequestReceived"})
        /\ (PvHas({"GetRequestReceived"}) \/ pv_result = "Ok")) =>
       /\ PvHas({"write_get"})
       /\ FirstOf(pv_log, WriteKinds \cup {"finish"}) = FirstOf(pv_log, {"write_get"})
       /\ CustomPrefix = <<Entry("authorize", "-", 1), Ev("CustomGetRequestReceived"),
                           Ev("custom_handle"), Ev("write_get")>>
       /\ [log |-> pv_log, result |-> pv_result]
             \in handle_get_outcomes(pv_db, pv_req, CustomPrefix)

\* C30 witness: a CustomGet turned into a Get for the root and the second
\* child, served to the end
C30_Witness ==
    /\ pv_pc = "done" /\ pv_stream.frame = "CustomGet" /\ pv_req = {0, 2}
    /\ pv_tc = "Sent" /\ pv_result = "Ok"
    /\ \E n \in DOMAIN pv_log : pv_log[n] = Entry("TransferBlobCompleted", "c2", 1)

\* what the handler of a Get received directly leaves is one of the outcomes
\* of handle_get
DirectGetOutcome ==
    (pv_pc = "done" /\ pv_stream.frame = "Get" /\ PvHas({"GetRequestReceived"})) =>
        [log |-> pv_log, result |-> pv_result]
            \in handle_get_outcomes(pv_db, pv_req, <<Entry("authorize", "-", 1)>>)

\* the request names a child offset beyond the end of the collection and
\* every child it names within the collection is in the blob map
BeyondEnd(ranges, blob_map) ==
    /\ \E k \in ranges : k > Len(Collection)
    /\ \A k \in ranges : k \in 1..Len(Collection) => Collection[k] \in blob_map

\* C31: when the request names a child offset beyond the end of the
\* collection and nothing fails, nothing is looked up or written for that
\* offset or a later one, the stream is finished and the transfer is
\* reported as Sent with TransferCollectionCompleted, not as NotFound with
\* TransferAborted.
C31_BeyondEndIsSent ==
    (TransferReturned /\ ~pv_iofail /\ BeyondEnd(pv_req, pv_db)) =>
        /\ pv_tc = "Sent" /\ pv_result = "Ok"
        /\ pv_log[Len(pv_log)].k = "TransferCollectionCompleted"
        /\ pv_log[Len(pv_log) - 1].k = "finish"
        /\ ~PvHas({"TransferAborted"})
        /\ \A n \in DOMAIN pv_log :
              pv_log[n].k \in {"db_get", "write_blob", "write_partial"} =>
                  pv_log[n].i <= Len(Collection)
        /\ \A k \in pv_req : k <= Len(Collection) =>
              \E n \in DOMAIN pv_log :
                  pv_log[n].k = "write_blob" /\ pv_log[n].i = k

\* C31 witness: the first child and an offset beyond the end were requested;
\* the first child was written and the transfer ended as Sent
C31_Witness ==
    /\ TransferReturned /\ ~pv_iofail /\ pv_req = {1, Len(Collection) + 1}
    /\ pv_tc = "Sent"
    /\ \E n \in DOMAIN pv_log : pv_log[n] = Entry("write_blob", "c1", 1)

\* the events of a request that may not follow its terminal event
RequestScopedEvents ==
    RequestEvents \cup TerminalEvents
        \cup {"TransferCollectionStarted", "TransferBlobCompleted"}

\* C14: a request has at most one terminal event (TransferCollectionCompleted
\* or TransferAborted), and no GetRequestReceived, CustomGetRequestReceived,
\* TransferCollectionStarted or TransferBlobCompleted event follows it.
C14_TerminalEventIsLast ==
    /\ CountOf(pv_log, TerminalEvents) <= 1
    /\ \A n \in DOMAIN pv_log, m \in DOMAIN pv_log :
          (pv_log[n].k \in TerminalEvents /\ n < m) =>
              pv_log[m].k \notin RequestScopedEvents

\* C14 witness: a custom get that was served to the end, with every kind of
\* event of a request in its log
C14_Witness ==
    /\ pv_pc = "done"
    /\ \A k \in {"CustomGetRequestReceived", "GetRequestReceived",
                  "TransferCollectionStarted", "TransferBlobCompleted",
                  "TransferCollectionCompleted"} : PvHas({k})
    /\ pv_log[Len(pv_log)].k = "TransferCollectionCompleted"

\* C15: a Get (well formed and authorized, no failure of the stream) for a
\* hash that is absent from the blob map: GetRequestReceived, the lookup,
\* TransferAborted and the finish of the stream, in this order and nothing
\* else (no blob data, no closing of the connection); the handler returns Ok.
C15_AbsentRootAborts ==
    ( /\ pv_pc = "done"
      /\ pv_stream = [frame |-> "Get", extra |-> FALSE]
      /\ PvHas({"GetRequestReceived"})
      /\ Root \notin pv_db
      /\ ~pv_iofail )
    => /\ pv_log = <<Entry("authorize", "-", 1), Ev("GetRequestReceived"),
                     Entry("db_get", Root, 0), Ev("TransferAborted"), Ev("finish")>>
       /\ pv_result = "Ok"

\* C15 witness: a Get with children requested, the root absent while the
\* children are present
C15_Witness ==
    /\ pv_pc = "done"
    /\ pv_stream = [frame |-> "Get", extra |-> FALSE]
    /\ pv_req = {0, 1, 2}
    /\ pv_db = SeqRange(Collection)
    /\ pv_result = "Ok"

\* the offsets whose blob was written, in the order of writing
RECURSIVE WrittenOffsets(_)
WrittenOffsets(log) ==
    IF log = << >> THEN << >>
    ELSE (IF Head(log).k = "write_blob" THEN <<Head(log).i>> ELSE << >>)
            \o WrittenOffsets(Tail(log))

\* the requested offsets that exist: the root and the children of the collection
ServedOffsets(ranges) == SelectSeq(iter_non_empty(ranges), LAMBDA k : k <= Len(Collection))

\* C19: the provider writes the root first (when offset 0 is requested) and
\* then, in increasing offset order, for each requested k >= 1 the (k-1)-th
\* child of the collection, skipping the children in between; each
\* TransferBlobCompleted carries index k-1 and the hash of that child.  A
\* transfer that ran to its end wrote exactly the requested offsets.
C19_ChildrenInOffsetOrder ==
    /\ \A n \in DOMAIN pv_log :
          /\ pv_log[n].k = "write_blob" =>
                pv_log[n].h = (IF pv_log[n].i = 0 THEN Root ELSE Collection[pv_log[n].i])
          /\ pv_log[n].k = "TransferBlobCompleted" =>
                /\ pv_log[n].h = Collection[pv_log[n].i + 1]
                /\ pv_log[n - 1] = Entry("write_blob", pv_log[n].h, pv_log[n].i + 1)
    /\ \E n \in 0..Len(ServedOffsets(pv_req)) :
          WrittenOffsets(pv_log) = SubSeq(ServedOffsets(pv_req), 1, n)
    /\ pv_tc = "Sent" => WrittenOffsets(pv_log) = ServedOffsets(pv_req)

\* C19 witness: offsets 0, 2 and 4 were requested of a collection of three
\* children; the root and the second child were sent, there is no fourth child
C19_Witness ==
    /\ pv_pc = "done"
    /\ pv_req = {0, 2, 4}
    /\ pv_tc = "Sent"
    /\ \E n \in DOMAIN pv_log : pv_log[n] = Entry("TransferBlobCompleted", "c2", 1)

\* C20: after every step of the actor running_by_hash and running_by_peer
\* are mutual inverses: running_by_hash[h] = p exactly when
\* running_by_peer[p] = h.
C20_RunningMapsInverse ==
    /\ \A h \in DOMAIN queue.running_by_hash :
          /\ queue.running_by_hash[h] \in DOMAIN queue.running_by_peer
          /\ queue.running_by_peer[queue.running_by_hash[h]] = h
    /\ \A p \in DOMAIN queue.running_by_peer :
          /\ queue.running_by_peer[p] \in DOMAIN queue.running_by_hash
          /\ queue.running_by_hash[queue.running_by_peer[p]] = p

\* the hash has a candidate peer left in the given queue
HasCandidates(q, h) ==
    h \in DOMAIN q.candidates_by_hash /\ q.candidates_by_hash[h] # << >>

\* C21: after every step of the actor, each hash that still has an unanswered
\* waiter in replies is in running_by_hash or has a non-empty candidate list.
C21_WaitersHaveRunningOrCandidate ==
    \A h \in DOMAIN replies :
        replies[h] # << >> =>
            (h \in DOMAIN queue.running_by_hash \/ HasCandidates(queue, h))

\* the peer whose first failure this step handles, if any
NewlyFailed == failed_peers' \ failed_peers

\* C22: when a peer fails, its candidate list and its running assignment are
\* removed, and for every hash it was a candidate for or was running, the
\* waiters are answered None if and only if afterwards no other peer remains
\* as candidate for, or is running, that hash.
C22_PeerFailureAnswersExactly ==
    [][\A p \in NewlyFailed :
          /\ p \notin DOMAIN queue'.candidates_by_peer
          /\ p \notin DOMAIN queue'.running_by_peer
          /\ \A h \in DOMAIN replies :
                ( /\ replies[h] # << >>
                  /\ \/ (h \in DOMAIN queue.candidates_by_hash
                            /\ p \in SeqRange(queue.candidates_by_hash[h]))
                     \/ (p \in DOMAIN queue.running_by_peer
                            /\ queue.running_by_peer[p] = h) )
                => ( (\A i \in SeqRange(replies[h]) : reply_rx'[i] = ReplyNone)
                       <=> ( ~HasCandidates(queue', h)
                               /\ h \notin DOMAIN queue'.running_by_hash ) )]_vars

\* C23: after every queue operation neither candidates_by_hash nor
\* candidates_by_peer has a key that maps to an empty deque.
C23_NoEmptyCandidateLists ==
    /\ \A h \in DOMAIN queue.candidates_by_hash : queue.candidates_by_hash[h] # << >>
    /\ \A p \in DOMAIN queue.candidates_by_peer : queue.candidates_by_peer[p] # << >>

\* C24: the downloads in flight are a matching of peers and hashes: no peer
\* has two downloads in flight, no hash is downloaded from two peers, and a
\* peer that becomes ready is given no hash that is already in flight.
C24_InFlightIsMatching ==
    /\ \A f \in pending_download_futs, g \in pending_download_futs :
          (f[1] = g[1] \/ f[2] = g[2]) => f = g
    /\ \A p \in dialing :
          \A g \in pending_download_futs :
              g[1] # p /\ g[2] # try_next_for_peer(queue, p).next

\* C24 witness: two downloads are in flight, of two hashes from two peers
C24_Witness ==
    pending_download_futs = {<<"p1", "h1">>, <<"p2", "h2">>}

\* C25, as the claim states it: no hash is in running_by_hash while it has a
\* non-empty candidate list.
C25_RunningXorCandidates ==
    \A h \in DOMAIN queue.running_by_hash : ~HasCandidates(queue, h)

\* C25, as the code has it: the peer a download is started from is taken out
\* of the candidate list of the hash, which is marked as running on that
\* peer; the other candidates of the hash stay in its list.
C25_StartedPeerLeavesCandidates ==
    [][\A f \in pending_download_futs' \ pending_download_futs :
          /\ f[2] \in DOMAIN queue'.running_by_hash
          /\ queue'.running_by_hash[f[2]] = f[1]
          /\ f[2] \in DOMAIN queue'.candidates_by_hash =>
                f[1] \notin SeqRange(queue'.candidates_by_hash[f[2]])
          /\ f[2] \in DOMAIN queue.candidates_by_hash =>
                \A q \in SeqRange(queue.candidates_by_hash[f[2]]) \ {f[1]} :
                    /\ f[2] \in DOMAIN queue'.candidates_by_hash
                    /\ q \in SeqRange(queue'.candidates_by_hash[f[2]])]_vars

\* C25 witness: h1 is downloaded from p1 while p2 is still a candidate for it
C25_Witness ==
    /\ pending_download_futs = {<<"p1", "h1">>}
    /\ HasCandidates(queue, "h1")
    /\ queue.candidates_by_hash["h1"] = <<"p2">>

\* C26: a download of H from P that ends with an error of verification (the
\* actor sees it as Err, like every other error of a download) is handled
\* like a not-found answer: P stays a candidate for, or starts to download,
\* each other hash it was a candidate for, and it keeps its connection when
\* it has such a hash.
C26_IntegrityErrorLikeNotFound ==
    [][\A p \in NewlyFailed :
          (dialing' = dialing /\ p \in DOMAIN queue.candidates_by_peer) =>
              \A n \in DOMAIN queue.candidates_by_peer[p] :
                  LET h == queue.candidates_by_peer[p][n] IN
                  h \notin DOMAIN queue.running_by_hash =>
                      \/ <<p, h>> \in pending_download_futs'
                      \/ ( /\ p \in DOMAIN queue'.candidates_by_peer
                            /\ h \in SeqRange(queue'.candidates_by_peer[p]) )]_vars

\* C27: after every step of the actor a peer with a non-empty candidate list
\* has a connection in conns or a pending dial.
C27_CandidatePeerIsReachable ==
    \A p \in DOMAIN queue.candidates_by_peer :
        queue.candidates_by_peer[p] # << >> => (p \in conns \/ p \in dialing)

(***************************************************************************)
(*                     Replica store claims                                *)
(***************************************************************************)
\* every SignedEntry a read operation of the store can return
Returned(records) ==
    get_all(records)
        \cup UNION {store_get(records, id) : id \in RecordIdentifiers}
        \cup UNION {get_latest_by_key_and_author(records, k, AuthorKey) : k \in Keys}
        \cup {store_all(records)[n].v : n \in DOMAIN store_all(records)}
        \cup UNION {{store_get_range(records, SomeRange(x, y), NoRange)[n].v :
                        n \in DOMAIN store_get_range(records, SomeRange(x, y), NoRange)} :
                    x \in RecordIdentifiers, y \in RecordIdentifiers}

\* C9: after any sequence of put and remove with valid and invalid entries,
\* every SignedEntry the store holds or returns passes both the namespace and
\* the author signature verification.
C9_StoredEntriesVerify ==
    \A v \in Returned(st_records) :
        /\ verify_strict(v.entry.id.namespace, v.entry, v.namespace_signature)
        /\ verify_strict(v.entry.id.author, v.entry, v.author_signature)

\* C9 witness: every identifier holds entries and the last put was dropped
C9_Witness ==
    /\ st_last = "dropped"
    /\ DOMAIN st_records = RecordIdentifiers
    /\ \A id \in RecordIdentifiers : DOMAIN st_records[id] = Timestamps

\* greatest by (timestamp, then content hash)
Greatest(vs) ==
    CHOOSE v \in vs : \A w \in vs :
        \/ w.entry.record.timestamp < v.entry.record.timestamp
        \/ /\ w.entry.record.timestamp = v.entry.record.timestamp
           /\ w.entry.record.hash <= v.entry.record.hash

\* C10: of the valid entries put for one identifier, in any order, the store
\* returns as latest the greatest by (timestamp, then content hash).
C10_LatestIsGreatest ==
    \A id \in RecordIdentifiers :
        st_valid_puts[id] # {} =>
            /\ store_get(st_records, id) = {Greatest(st_valid_puts[id])}
            /\ get_latest_by_key_and_author(st_records, id.key, id.author)
                  = {Greatest(st_valid_puts[id])}
            /\ \E n \in DOMAIN store_all(st_records) :
                  store_all(st_records)[n] = [k |-> id, v |-> Greatest(st_valid_puts[id])]

\* every limit a caller may pass: none, or a range of identifiers
Limits ==
    {NoRange} \cup {SomeRange(x, y) : x \in RecordIdentifiers, y \in RecordIdentifiers}

\* the identifiers stored that lie in the range and in the limit
StoredIn(records, range, limit) ==
    {k \in DOMAIN records :
        range_contains(k, range) /\ \A r \in limit : range_contains(k, r)}

\* the XOR of as_fingerprint over a set of identifiers, each taken once
RECURSIVE XorOver(_)
XorOver(ids) ==
    IF ids = {} THEN EmptyFingerprint
    ELSE LET k == CHOOSE x \in ids : TRUE
         IN Xor(as_fingerprint(k), XorOver(ids \ {k}))

\* C32: get_fingerprint(range, limit) is the XOR of as_fingerprint(k) over
\* exactly the identifiers stored that lie in range (and in limit, when
\* given), each counted once however many timestamps it holds; it is the
\* empty fingerprint when none matches, and is decided by the identifiers
\* stored, whatever the order of the puts that stored them.
C32_FingerprintIsXorOfStoredIds ==
    \A x \in RecordIdentifiers, y \in RecordIdentifiers : \A limit \in Limits :
        LET fp == get_fingerprint(st_records, RangeOf(x, y), limit)
            ids == StoredIn(st_records, RangeOf(x, y), limit)
        IN /\ fp = XorOver(ids)
           /\ (ids = {} => fp = EmptyFingerprint)
           /\ \A k \in RecordIdentifiers : (as_fingerprint(k) \subseteq fp) <=> k \in ids

\* C32 witness: both identifiers are stored, the first with two timestamps,
\* and the range that holds only the first has its fingerprint, while the
\* limit that excludes it leaves the empty fingerprint
C32_Witness ==
    /\ DOMAIN st_records = RecordIdentifiers
    /\ DOMAIN st_records[RecordIdentifier(1)] = Timestamps
    /\ get_fingerprint(st_records, RangeOf(RecordIdentifier(1), RecordIdentifier(2)), NoRange)
          = as_fingerprint(RecordIdentifier(1))
    /\ get_fingerprint(st_records, RangeOf(RecordIdentifier(1), RecordIdentifier(1)),
                       SomeRange(RecordIdentifier(2), RecordIdentifier(1)))
          = as_fingerprint(RecordIdentifier(2))

(***************************************************************************)
(*                          Sync claims                                    *)
(***************************************************************************)
\* the timestamps entry sets A0 and B0 hold for an identifier
TimestampsOf(id) ==
    (IF id \in DOMAIN sy_A0 THEN DOMAIN sy_A0[id] ELSE {})
        \cup (IF id \in DOMAIN sy_B0 THEN DOMAIN sy_B0[id] ELSE {})

SyncComplete == sy_alice_pc = "ok" /\ sy_bob_pc = "ok" /\ sy_bob_known

\* C4: after one complete run of run_alice against run_bob, for every record
\* identifier of A or B both stores hold an entry and their latest entry is
\* the last-writer-wins winner of the union, the one with the greatest timestamp.
C4_StoresConverge ==
    SyncComplete =>
        \A id \in RecordIdentifiers :
            TimestampsOf(id) # {} =>
                \A records \in {sy_alice, sy_bob} :
                    /\ store_get(records, id) # {}
                    /\ \A v \in store_get(records, id) :
                          v.entry.record.timestamp = Max(TimestampsOf(id))

\* C16: run_bob ends with an error on a second Init and on a Sync that comes
\* before any Init, run_alice ends with an error on any Init; the offending
\* message is applied to no replica and no reply is written for it.
C16_OutOfOrderMessageRejected ==
    [][/\ (BobTakes /\ (IF Head(sy_a2b).tag = "Init" THEN sy_replica ELSE ~sy_replica)) =>
             /\ sy_bob_pc' = "err"
             /\ UNCHANGED <<sy_alice, sy_bob, sy_b2a>>
       /\ (AliceTakes /\ Head(sy_b2a).tag = "Init") =>
             /\ sy_alice_pc' = "err"
             /\ UNCHANGED <<sy_alice, sy_bob, sy_a2b>>]_vars

\* C16 witness: run_bob stopped with an error on a second Init, written by
\* its peer after the Init that set its replica
C16_Witness ==
    /\ sy_bob_pc = "err" /\ sy_replica /\ sy_bob_known
    /\ sy_injected = MaxInject

\* the entries carried by the messages of a stream
EntriesIn(stream) ==
    UNION {UNION {SeqRange(stream[n].message[j].values) : j \in DOMAIN stream[n].message}
              : n \in DOMAIN stream}

\* C17: reconciliation is idempotent: in a second run right after a completed
\* run no entry is transferred and both stores stay as they were.
C17_SecondRunTransfersNothing ==
    sy_run = 2 =>
        /\ sy_alice = sy_A1 /\ sy_bob = sy_B1
        /\ EntriesIn(sy_a2b) = {} /\ EntriesIn(sy_b2a) = {}

\* C17 witness: the second run is over, after a first run that changed both
\* stores
C17_Witness ==
    /\ sy_run = 2 /\ sy_alice_pc = "ok" /\ sy_bob_pc = "ok"
    /\ sy_A1 # sy_A0 /\ sy_B1 # sy_B0

(***************************************************************************)
(*                     Live-sync claim                                     *)
(***************************************************************************)
\* C18: once the actor has taken Shutdown (or None, every handle being
\* dropped) out of its channel, it processes no gossip event, local-insert
\* notification or sync completion any more, and when its run loop has
\* returned it has called gossip.quit for every topic it had joined.
C18_ShutdownQuitsEveryTopic ==
    lv_taken =>
        /\ lv_after = 0
        /\ lv_pc \in {"ok", "err"} => lv_docs_at_take \subseteq lv_quit

\* run_alice and run_bob have returned
AliceReturned == sy_alice_pc \in {"ok", "err"}

BobReturned == sy_bob_pc \in {"ok", "err"}

\* C34: for any two finite replicas of one namespace run_alice and run_bob
\* both return; the sides alternate, so at most one message is under way at
\* any time, and when a side has returned nothing is left unread: the other
\* side observes the end of the stream next.
C34_SyncTerminates ==
    /\ [](Len(sy_a2b) + Len(sy_b2a) <= 1)
    /\ []((AliceReturned \/ BobReturned) => (sy_a2b = << >> /\ sy_b2a = << >>))
    /\ <>(AliceReturned /\ BobReturned)

\* C34 witness: both sides returned Ok after each took entries from the other
C34_Witness ==
    /\ sy_alice_pc = "ok" /\ sy_bob_pc = "ok"
    /\ sy_alice # sy_A0 /\ sy_bob # sy_B0

(***************************************************************************)
(*                        Store lock claim                                 *)
(***************************************************************************)
\* the thread is inside a call of the store that has not returned
InCall(t) == lk_pc[t] # "run"

\* some call can go on: a lock can be granted, a closure can return or an
\* iterator can be dropped
CanProgress ==
    \E t \in Threads :
        ENABLED LkLock(t) \/ ENABLED LkReturn(t) \/ ENABLED LkDropIter(t)

\* C33: concurrent puts and reads on one store never deadlock, also when a
\* thread holds a live range iterator while it puts into or reads from the
\* store: whenever a call has not returned, some thread can take a step
\* that lets calls return.
C33_NoDeadlock ==
    (\E t \in Threads : InCall(t)) => CanProgress

(***************************************************************************)
(*                     Live sync: syncs and inserts                        *)
(***************************************************************************)
\* the pairs whose direct sync has ended
SyncEnded == {tp \in DOMAIN lv_sync_state : lv_sync_state[tp] \in {"Finished", "Failed"}}

\* C35: the actor starts at most one direct sync per (topic, peer): a sync
\* task is pushed only for a pair without a recorded state, a recorded state
\* is never forgotten and never goes back to Running, so neither a repeated
\* NeighborUp nor a later SyncDoc starts another sync, also after the
\* earlier one finished or failed.
C35_OneSyncPerTopicPeer ==
    [][ /\ \A tp \in lv_pending_syncs' \ lv_pending_syncs : tp \notin DOMAIN lv_sync_state
        /\ DOMAIN lv_sync_state \subseteq DOMAIN lv_sync_state'
        /\ \A tp \in SyncEnded : lv_sync_state'[tp] = lv_sync_state[tp] ]_vars

\* C35 witness: sync_with_peer was called again for a pair whose sync had
\* ended, and no task of that pair is pending
C35_Witness ==
    \E tp \in lv_skipped : tp \in SyncEnded /\ tp \notin lv_pending_syncs

\* C36: an entry inserted with a Remote origin is never published to gossip:
\* no notification of a Remote insert is queued, is being sent or has been
\* broadcast; only Local inserts are.
C36_RemoteNeverPublished ==
    /\ "Remote" \notin lv_published
    /\ \A i \in 1..Len(lv_insert_q) : lv_insert_q[i].origin = "Local"
    /\ \A i \in 1..Len(lv_sending) : lv_sending[i].origin = "Local"

\* C36 witness: a replica with a registered callback received a remote
\* entry, and a local insert was broadcast
C36_Witness ==
    /\ \E topic \in lv_received : lv_callbacks[topic] > 0
    /\ "Local" \in lv_published
    /\ lv_nbroadcast > 0

\* C37: the on_insert callback returns without blocking the inserting
\* thread in every state, also when the actor has not yet consumed 64
\* earlier notifications of local inserts: no thread is ever held in the
\* send of a notification.
C37_CallbackNeverBlocks == lv_sending = << >>

\* the actor runs and no notification is queued or being sent
LvQuiescent == lv_pc = "run" /\ lv_insert_q = << >> /\ lv_sending = << >>

\* C38: each local insert into a registered replica results in exactly one
\* gossip broadcast while the actor runs, also when SyncDoc was sent more
\* than once for the replica: once every notification has been consumed
\* there are as many broadcasts as local inserts.
C38_OneBroadcastPerLocalInsert == LvQuiescent => lv_nbroadcast = lv_ninserts

(***************************************************************************)
(*                    Download queue: the index maps                       *)
(***************************************************************************)
\* how often x occurs in the deque a map holds for the key k
Occurrences(map, k, x) ==
    IF k \in DOMAIN map
    THEN Cardinality({i \in DOMAIN map[k] : map[k][i] = x})
    ELSE 0

\* C39: candidates_by_hash and candidates_by_peer always describe the same
\* multiset of (hash, peer) pairs: a peer occurs n times among the
\* candidates of a hash exactly if the hash occurs n times among the
\* candidates of the peer, also after the same pair was pushed more than once.
C39_CandidateMapsAgree ==
    \A hash \in Hashes, peer \in Peers :
        Occurrences(queue.candidates_by_hash, hash, peer)
            = Occurrences(queue.candidates_by_peer, peer, hash)

\* C40: whenever the actor handles the result of a download of a hash from
\* a peer, running_by_hash holds that peer for the hash, so the
\* debug_assert_eq of on_success and on_not_found does not fail: this holds
\* for every download in flight, whichever yields its result next.
C40_RunningPeerAtResult ==
    \A f \in pending_download_futs :
        /\ f[2] \in DOMAIN queue.running_by_hash
        /\ queue.running_by_hash[f[2]] = f[1]

\* C40 witness: a success and a not-found result have been handled and a
\* download is in flight
C40_Witness ==
    /\ db # {} /\ not_found_by # {}
    /\ pending_download_futs # {}

====
